---- MODULE Spec2Model ----
(***************************************************************************)
(* RaceVision: the outcome-prediction engine (ver1.0.1/ml_models.py), its  *)
(* callers (main.py, dashboard.py) and the per-race loops of               *)
(* ver1.0.1/analysis.py and ml_models.py, as state machines.               *)
(*                                                                         *)
(* Python values are tagged records, so that values of different Python    *)
(* types can be compared: None, an int, a float, a dict, a raised          *)
(* exception.  Finish positions stand for the floats of the finish         *)
(* predictor; the linear regression is computed in exact fractions.        *)
(***************************************************************************)
EXTENDS Integers, Sequences, FiniteSets, TLC

(***************************************************************************)
(* Python values                                                           *)
(***************************************************************************)
None == [tag |-> "None"]
PyInt(v) == [tag |-> "int", v |-> v]
Float(v) == [tag |-> "float", v |-> v]
Dict(keys, val) == [tag |-> "dict", keys |-> keys, val |-> val]
EmptyDict == Dict({}, <<>>)
Raised(exc) == [tag |-> "raise", exc |-> exc]

Max(a, b) == IF a >= b THEN a ELSE b
Min(a, b) == IF a <= b THEN a ELSE b
Abs(a) == IF a >= 0 THEN a ELSE 0 - a
SeqsUpTo(S, n) == UNION {[1..k -> S] : k \in 0..n}

RECURSIVE GCD(_, _)
GCD(a, b) == IF b = 0 THEN a ELSE GCD(b, a % b)
\* The fraction num/den in lowest terms, den > 0.
Frac(num, den) ==
    LET g == GCD(Abs(num), Abs(den))
        s == IF den < 0 THEN 0 - 1 ELSE 1
    IN  [num |-> (s * num) \div g, den |-> (s * den) \div g]
FAdd(a, b) == Frac(a.num * b.den + b.num * a.den, a.den * b.den)
FMul(a, b) == Frac(a.num * b.num, a.den * b.den)
FloatFrac(f) == [tag |-> "float", num |-> f.num, den |-> f.den]

RECURSIVE SumSeq(_)
SumSeq(s) == IF s = <<>> THEN 0 ELSE Head(s) + SumSeq(Tail(s))

(***************************************************************************)
(* Bounds of the model                                                     *)
(***************************************************************************)
\* Longest feature table handed to RaceOutcomePredictor.train directly.
MaxRows == 2
\* How far outside [1, 20] a raw regression output is taken.
RawSpread == 3
\* Most (grid, delta) examples handed to QualifyingToRacePredictor.train directly.
MaxPoints == 2
\* Largest data set the callers are handed by the prepare operations.
MaxExamples == 12
\* Drivers of a race, races of a season, seasons of a request.
NDrivers == 4
MaxRaces == 2
MaxYears == 2

(***************************************************************************)
(* RaceOutcomePredictor (ml_models.py)                                     *)
(***************************************************************************)
\* Categories that occur in training tables, and one of each kind that never
\* does (the "unknown category" of predict).
DriverIds == {"A", "B"}
UnseenDriver == "Z"
ConstructorNames == {"M", "F"}
UnseenConstructor == "Q"
\* Sort order of the category strings (LabelEncoder sorts its classes).
Alphabet == <<"A", "B", "F", "M", "Q", "Z">>
Rank(s) == CHOOSE i \in 1..Len(Alphabet) : Alphabet[i] = s

\* model_type strings given to the constructor; "lgbm" names no supported kind.
ModelTypes == {"rf", "xgb", "cb", "lgbm"}

\* Rows of a feature table X: the columns train and predict read.
GridPositions == {1}
FeatureRows == [grid_position : GridPositions, driver : DriverIds,
                constructor : ConstructorNames]
\* Targets: a finish position on a 22-car grid.
Targets == {22}
\* Tables are taken up to the order of their rows, which neither the
\* encoders' class sets nor the acceptance of a fit depends on: rows in
\* (driver, constructor) order.
RowBefore(a, b) ==
    \/ Rank(a.driver) < Rank(b.driver)
    \/ a.driver = b.driver /\ Rank(a.constructor) <= Rank(b.constructor)
\* A table of no examples is pd.DataFrame([]): it has no columns at all.
FeatureTables ==
    {X \in SeqsUpTo(FeatureRows, MaxRows) :
        \A i \in 1..(Len(X) - 1) : RowBefore(X[i], X[i + 1])}
TargetVectors == SeqsUpTo(Targets, MaxRows)

Column(X, c) == {X[i][c] : i \in 1..Len(X)}

VARIABLES
    predictor,   \* a RaceOutcomePredictor instance (self)
    call,        \* the most recent call on it and what the call returned
    hist,        \* history of its train calls
    qu_pred,     \* a QualifyingToRacePredictor instance (self)
    q_call,      \* the most recent call on it and what the call returned
    q_hist       \* history of its train calls

\* A fitted regressor is opaque; the model keeps the categories of the table
\* it was fitted on.
Digest(X) == [fitted |-> TRUE, drivers |-> Column(X, "driver"),
              constructors |-> Column(X, "constructor")]
NoDigest == [fitted |-> FALSE, drivers |-> {}, constructors |-> {}]

\* LabelEncoder(): no classes_ until fitted.
NewLabelEncoder == [fitted |-> FALSE, classes |-> {}]
\* LabelEncoder.fit_transform(values): classes_ are the distinct values seen.
FitTransform(values) == [fitted |-> TRUE, classes |-> values]
\* LabelEncoder.transform([v])[0]: the index of v in the sorted classes_;
\* raises (NotFittedError, ValueError) when unfitted or v is not a class.
Transform(le, v) ==
    IF le.fitted /\ v \in le.classes
    THEN [ok |-> TRUE, code |-> Cardinality({u \in le.classes : Rank(u) < Rank(v)})]
    ELSE [ok |-> FALSE, code |-> 0]

\* __init__: the regressor behind the model_type string, given which of the
\* optional libraries imported.
SelectModel(mt, xgboost_available, catboost_available) ==
    IF mt = "xgb" /\ xgboost_available THEN "XGBRegressor"
    ELSE IF mt = "cb" /\ catboost_available THEN "CatBoostRegressor"
    ELSE "RandomForestRegressor"

\* RaceOutcomePredictor(model_type); mae and r2 are attributes only train sets.
NewPredictor(mt, xgboost_available, catboost_available) ==
    [model_type |-> mt,
     le_driver |-> NewLabelEncoder,
     le_constructor |-> NewLabelEncoder,
     is_trained |-> FALSE,
     model |-> [kind |-> SelectModel(mt, xgboost_available, catboost_available),
                fit |-> NoDigest],
     mae |-> [set |-> FALSE, of |-> NoDigest],
     r2 |-> [set |-> FALSE, of |-> NoDigest]]

\* A call record: the operation, predict's arguments, the raw output of
\* self.model.predict when predict consulted the regressor, the numbers of
\* rows and of targets train was given, and the result.
CallOf(op, ret) ==
    [op |-> op, grid |-> 0, driver |-> "", constructor |-> "",
     consulted |-> FALSE, raw |-> 0, n |-> 0, ny |-> 0, ret |-> ret]
NoCall == CallOf("new", None)

\* History of one instance: whether a train call has run to completion, the
\* digest of the table of the most recent train call that was given
\* examples, that of the most recent completed one, and every driver id the
\* tables of its train calls held.
NoHist == [completed |-> FALSE, last_X |-> NoDigest, last_fit |-> NoDigest,
           seen_drivers |-> {}]
HistAfterTrain(h, X, ret) ==
    IF Len(X) = 0 THEN h
    ELSE [completed |-> h.completed \/ ret = None,
          last_X |-> Digest(X),
          last_fit |-> IF ret = None THEN Digest(X) ELSE h.last_fit,
          seen_drivers |-> h.seen_drivers \cup Column(X, "driver")]

\* The raw outputs of self.model.predict: below, at the ends of, inside and
\* above the clamping interval.
MinFinish == 1
MaxFinish == 20
RawOutputs == {MinFinish - RawSpread, MinFinish, (MinFinish + MaxFinish) \div 2,
               MaxFinish, MaxFinish + RawSpread}

ClampLowOnly(prediction) == Max(MinFinish, prediction)
\* max(1.0, min(prediction, 20.0))
Clamp(prediction) == Max(MinFinish, Min(prediction, MaxFinish))

UntrainedDefault == Float(0)
\* predict: "if not self.is_trained: return None"
PredictUntrained == None

TransformOrZero(le, v) ==
    IF le.fitted /\ v \in le.classes
    THEN [ok |-> TRUE, code |-> Cardinality({u \in le.classes : Rank(u) < Rank(v)})]
    ELSE [ok |-> TRUE, code |-> 0]
\* The encoder lookups of predict.
PredictTransform(le, v) == Transform(le, v)

\* predict(grid_position, driver, constructor), the regressor answering raw;
\* whatever is raised inside the try (an encoder's ValueError, a regressor
\* that was never fitted) is swallowed.
PredictResult(self, grid_position, driver, constructor, raw) ==
    IF ~self.is_trained THEN PredictUntrained
    ELSE LET d == PredictTransform(self.le_driver, driver)
             c == PredictTransform(self.le_constructor, constructor)
         IN  IF ~d.ok \/ ~c.ok \/ ~self.model.fit.fitted
             THEN None
             ELSE Float(Clamp(raw))

PredictCall(self, g, d, c, raw) ==
    LET ret == PredictResult(self, g, d, c, raw)
        consulted == ret.tag = "float"
    IN  [op |-> "predict", grid |-> g, driver |-> d, constructor |-> c,
         consulted |-> consulted, raw |-> IF consulted THEN raw ELSE 0,
         n |-> 0, ny |-> 0, ret |-> ret]

Predict ==
    \E g \in GridPositions, d \in DriverIds \cup {UnseenDriver},
       c \in ConstructorNames \cup {UnseenConstructor}, raw \in RawOutputs :
        /\ call' = PredictCall(predictor, g, d, c, raw)
        /\ UNCHANGED <<predictor, hist>>

FitDriverEncoderKeeping(self, X) ==
    FitTransform(self.le_driver.classes \cup Column(X, "driver"))
\* train: self.le_driver.fit_transform(X['driver'])
FitDriverEncoder(self, X) == FitTransform(Column(X, "driver"))
\* train: self.le_constructor.fit_transform(X['constructor'])
FitConstructorEncoder(self, X) == FitTransform(Column(X, "constructor"))

\* self.model.fit(X_encoded, y) raises ValueError when the numbers of rows
\* and of targets differ; the regressor is then what it was.
FitRaises(X, y) == Len(X) # Len(y)

\* train(X, y): the instance after the call and what the call returned.
\* A table of no examples has no 'driver' column: X['driver'] raises KeyError
\* before anything is assigned.  Otherwise both encoders are refitted, then
\* the regressor is fitted (or raises), then the flag and the diagnostics are
\* stored; the diagnostics are computed from the inputs fit has accepted.
TrainOn(self, X, y) ==
    IF Len(X) = 0 THEN [self |-> self, ret |-> Raised("KeyError")]
    ELSE LET encoded == [self EXCEPT !.le_driver = FitDriverEncoder(self, X),
                                     !.le_constructor = FitConstructorEncoder(self, X)]
         IN  IF FitRaises(X, y)
             THEN [self |-> encoded, ret |-> Raised("ValueError")]
             ELSE [self |-> [encoded EXCEPT !.model.fit = Digest(X),
                                            !.is_trained = TRUE,
                                            !.mae = [set |-> TRUE, of |-> Digest(X)],
                                            !.r2 = [set |-> TRUE, of |-> Digest(X)]],
                   ret |-> None]

TrainCall(X, y, ret) == [CallOf("train", ret) EXCEPT !.n = Len(X), !.ny = Len(y)]

Train ==
    \E X \in FeatureTables, y \in TargetVectors :
        LET r == TrainOn(predictor, X, y)
        IN  /\ predictor' = r.self
            /\ call' = TrainCall(X, y, r.ret)
            /\ hist' = HistAfterTrain(hist, X, r.ret)

\* get_feature_importance reads self.model.feature_importances_, which each
\* of the three regressors has once fitted: one importance per column.
Features == {"grid_position", "driver", "constructor"}
FeatureImportances(self) == [f \in Features |-> [by |-> self.model.kind, column |-> f]]

\* get_feature_importance()
GetFeatureImportanceResult(self) ==
    IF ~self.is_trained \/ self.model_type = "rf" THEN EmptyDict
    ELSE IF ~self.model.fit.fitted THEN EmptyDict
    ELSE Dict(Features, FeatureImportances(self))

GetFeatureImportance ==
    /\ call' = CallOf("get_feature_importance", GetFeatureImportanceResult(predictor))
    /\ UNCHANGED <<predictor, hist>>

\* getattr(self, 'mae', None)
StoredMetric(m) == IF m.set THEN [tag |-> "float", of |-> m.of] ELSE None

\* The dict get_metrics builds.
MetricsDict(self) ==
    Dict({"mae", "r2", "model_type"},
         [k \in {"mae", "r2", "model_type"} |->
            IF k = "mae" THEN StoredMetric(self.mae)
            ELSE IF k = "r2" THEN StoredMetric(self.r2)
            ELSE [tag |-> "str", s |-> self.model_type]])

MetricsUnguarded(self) == MetricsDict(self)
\* get_metrics()
GetMetricsResult(self) == IF ~self.is_trained THEN EmptyDict ELSE MetricsDict(self)

GetMetrics ==
    /\ call' = CallOf("get_metrics", GetMetricsResult(predictor))
    /\ UNCHANGED <<predictor, hist>>

(***************************************************************************)
(* QualifyingToRacePredictor (ml_models.py)                                *)
(***************************************************************************)
\* Grid positions and position changes (finish minus grid) of the examples.
QGrids == {1, 2, 3}
Deltas == {0 - 2, 1}
QFeatureVectors == SeqsUpTo(QGrids, MaxPoints)
QTargetVectors == SeqsUpTo(Deltas, MaxPoints)

\* LinearRegression(): no coefficients until fitted.
NewLinearRegression == [fitted |-> FALSE, coef |-> Frac(0, 1), intercept |-> Frac(0, 1)]
\* QualifyingToRacePredictor()
NewQualifyingToRacePredictor == [model |-> NewLinearRegression, is_trained |-> FALSE]

\* LinearRegression.fit(X, y), X one column: ordinary least squares with an
\* intercept.  With n examples, D = n * Sxx - Sx^2; the slope is
\* (n * Sxy - Sx * Sy) / D and, all x equal (D = 0), the minimum-norm
\* solution: slope 0; the intercept is mean(y) - slope * mean(x).
LinearFit(X, y) ==
    LET n == Len(X)
        Sx == SumSeq(X)
        Sy == SumSeq(y)
        Sxx == SumSeq([i \in 1..n |-> X[i] * X[i]])
        Sxy == SumSeq([i \in 1..n |-> X[i] * y[i]])
        D == n * Sxx - Sx * Sx
        coef == IF D = 0 THEN Frac(0, 1) ELSE Frac(n * Sxy - Sx * Sy, D)
    IN  [fitted |-> TRUE, coef |-> coef,
         intercept |-> FAdd(Frac(Sy, n), FMul(Frac(0 - Sx, n), coef))]
\* fit raises ValueError on no examples (np.array([]) is not 2-D) and when
\* the numbers of rows and of targets differ.
LinearFitRaises(X, y) == Len(X) = 0 \/ Len(X) # Len(y)

\* train(X, y): the instance after the call and what the call returned.
QTrainOn(self, X, y) ==
    IF LinearFitRaises(X, y) THEN [self |-> self, ret |-> Raised("ValueError")]
    ELSE [self |-> [model |-> LinearFit(X, y), is_trained |-> TRUE], ret |-> None]

\* self.model.predict([[qualifying_position]])[0]
LinearPredict(m, x) == FAdd(FMul(m.coef, Frac(x, 1)), m.intercept)

QPredictClamped(self, qualifying_position) ==
    IF ~self.is_trained THEN PyInt(0)
    ELSE LET p == LinearPredict(self.model, qualifying_position)
         IN  IF p.num < p.den THEN FloatFrac(Frac(1, 1)) ELSE FloatFrac(p)
\* predict(qualifying_position)
QPredictResult(self, qualifying_position) ==
    IF ~self.is_trained THEN PyInt(0)
    ELSE FloatFrac(LinearPredict(self.model, qualifying_position))

\* A call record: the operation, predict's argument, the numbers of rows and
\* of targets train was given, and the result.
QCallOf(op, x, n, ny, ret) == [op |-> op, x |-> x, n |-> n, ny |-> ny, ret |-> ret]
QNoCall == QCallOf("new", 0, 0, 0, None)
\* History of one instance: whether a train call has completed, and the
\* examples of the most recent completed one.
QNoHist == [completed |-> FALSE, X |-> <<>>, y |-> <<>>]
QHistAfterTrain(h, X, y, ret) ==
    IF ret = None THEN [completed |-> TRUE, X |-> X, y |-> y] ELSE h

QTrain ==
    \E X \in QFeatureVectors, y \in QTargetVectors :
        LET r == QTrainOn(qu_pred, X, y)
        IN  /\ qu_pred' = r.self
            /\ q_call' = QCallOf("train", 0, Len(X), Len(y), r.ret)
            /\ q_hist' = QHistAfterTrain(q_hist, X, y, r.ret)

QPredict ==
    \E x \in QGrids :
        /\ q_call' = QCallOf("predict", x, 0, 0, QPredictResult(qu_pred, x))
        /\ UNCHANGED <<qu_pred, q_hist>>

(***************************************************************************)
(* The callers of train: main.py and the Predictions page of dashboard.py  *)
(***************************************************************************)
VARIABLES
    program,     \* which program runs: "main", "dashboard", or direct use ("library")
    main_pc,     \* main.py: the section about to run
    handler      \* the section or widget handler that ran last, and what it showed

\* The data set a caller holds after the prepare call: n examples.  The
\* callers are run against every size up to MaxExamples; the prepare
\* operations as they stand hand back no example at all (see
\* prepare_training_data below), which is the size 0.
ExampleTable(n) ==
    [i \in 1..n |-> [grid_position |-> 1,
                     driver |-> IF i % 2 = 1 THEN "A" ELSE "B",
                     constructor |-> IF i % 4 < 2 THEN "M" ELSE "F"]]
ExampleTargets(n) == [i \in 1..n |-> 22]
QExampleGrids(n) == [i \in 1..n |-> 1 + (i % 3)]
QExampleDeltas(n) == [i \in 1..n |-> (i % 3) - 1]

\* The threshold of "if len(X) > 10".
MinExamples == 10

MainEnoughAtLeast(n) == n >= MinExamples
\* main.py: "if len(X) > 10:" before predictor.train and before qu_pred.train
MainEnough(n) == n > MinExamples
\* dashboard.py: "if len(X) > 10:" before predictor.train and before qu_pred.train
DashEnough(n) == n > MinExamples

NoHandler == [name |-> "none", n |-> 0, train_invoked |-> FALSE, shown |-> "nothing"]
Ran(name, n, invoked, shown) ==
    [name |-> name, n |-> n, train_invoked |-> invoked, shown |-> shown]

\* main.py, "Training Race Outcome Predictor...": a new 'rf' predictor, the
\* prepared data, train and get_metrics when there are enough examples, the
\* insufficient-data line otherwise; an exception is printed as an error.
MainRaceOutcome ==
    /\ program = "main" /\ main_pc = "race_outcome"
    /\ \E n \in 0..MaxExamples, xa \in BOOLEAN, ca \in BOOLEAN :
        LET p0 == NewPredictor("rf", xa, ca)
            X == ExampleTable(n)
            r == TrainOn(p0, X, ExampleTargets(n))
        IN  IF MainEnough(n)
            THEN /\ predictor' = r.self
                 /\ hist' = HistAfterTrain(NoHist, X, r.ret)
                 /\ IF r.ret = None
                    THEN /\ call' = CallOf("get_metrics", GetMetricsResult(r.self))
                         /\ handler' = Ran("main_race_outcome", n, TRUE, "trained")
                    ELSE /\ call' = TrainCall(X, ExampleTargets(n), r.ret)
                         /\ handler' = Ran("main_race_outcome", n, TRUE, "error")
            ELSE /\ predictor' = p0
                 /\ hist' = NoHist
                 /\ call' = NoCall
                 /\ handler' = Ran("main_race_outcome", n, FALSE, "insufficient")
    /\ main_pc' = "qualifying"
    /\ UNCHANGED <<program, qu_pred, q_call, q_hist>>

\* main.py, "Training Qualifying-to-Race Predictor...".
MainQualifying ==
    /\ program = "main" /\ main_pc = "qualifying"
    /\ \E n \in 0..MaxExamples :
        LET q0 == NewQualifyingToRacePredictor
            X == QExampleGrids(n)
            y == QExampleDeltas(n)
            r == QTrainOn(q0, X, y)
        IN  IF MainEnough(n)
            THEN /\ qu_pred' = r.self
                 /\ q_hist' = QHistAfterTrain(QNoHist, X, y, r.ret)
                 /\ q_call' = QCallOf("train", 0, n, n, r.ret)
                 /\ handler' = Ran("main_qualifying", n, TRUE,
                                   IF r.ret = None THEN "trained" ELSE "error")
            ELSE /\ qu_pred' = q0
                 /\ q_hist' = QNoHist
                 /\ q_call' = QNoCall
                 /\ handler' = Ran("main_qualifying", n, FALSE, "insufficient")
    /\ main_pc' = "done"
    /\ UNCHANGED <<program, predictor, call, hist>>

\* dashboard.py, the "Predict Finish Position" button: a new predictor of the
\* chosen model type, the prepared data, then train and predict when there
\* are enough examples (a truthy prediction is shown), the insufficient-data
\* warning otherwise.
DashPredictButton ==
    /\ program = "dashboard"
    /\ \E mt \in {"rf", "xgb", "cb"}, xa \in BOOLEAN, ca \in BOOLEAN,
          n \in 0..MaxExamples, d \in {"A", UnseenDriver},
          raw \in {MinFinish - RawSpread, MaxFinish} :
        LET p0 == NewPredictor(mt, xa, ca)
            X == ExampleTable(n)
            r == TrainOn(p0, X, ExampleTargets(n))
            c == PredictCall(r.self, 1, d, "M", raw)
        IN  IF DashEnough(n)
            THEN /\ predictor' = r.self
                 /\ hist' = HistAfterTrain(NoHist, X, r.ret)
                 /\ IF r.ret = None
                    THEN /\ call' = c
                         /\ handler' = Ran("dash_predict", n, TRUE,
                                IF c.ret # None THEN "prediction" ELSE "nothing")
                    ELSE /\ call' = TrainCall(X, ExampleTargets(n), r.ret)
                         /\ handler' = Ran("dash_predict", n, TRUE, "error")
            ELSE /\ predictor' = p0
                 /\ hist' = NoHist
                 /\ call' = NoCall
                 /\ handler' = Ran("dash_predict", n, FALSE, "insufficient")
    /\ UNCHANGED <<program, main_pc, qu_pred, q_call, q_hist>>

\* dashboard.py, the "Qualifying-to-Race Analysis" column.
DashQualifyingColumn ==
    /\ program = "dashboard"
    /\ \E n \in 0..MaxExamples, x \in QGrids :
        LET q0 == NewQualifyingToRacePredictor
            X == QExampleGrids(n)
            y == QExampleDeltas(n)
            r == QTrainOn(q0, X, y)
        IN  IF DashEnough(n)
            THEN /\ qu_pred' = r.self
                 /\ q_hist' = QHistAfterTrain(QNoHist, X, y, r.ret)
                 /\ IF r.ret = None
                    THEN /\ q_call' = QCallOf("predict", x, 0, 0, QPredictResult(r.self, x))
                         /\ handler' = Ran("dash_qualifying", n, TRUE, "metric")
                    ELSE /\ q_call' = QCallOf("train", 0, n, n, r.ret)
                         /\ handler' = Ran("dash_qualifying", n, TRUE, "error")
            ELSE /\ qu_pred' = q0
                 /\ q_hist' = QNoHist
                 /\ q_call' = QNoCall
                 /\ handler' = Ran("dash_qualifying", n, FALSE, "insufficient")
    /\ UNCHANGED <<program, main_pc, predictor, call, hist>>

(***************************************************************************)
(* The per-race loops: analyze_qualifying_impact (analysis.py),            *)
(* prepare_training_data and prepare_data (ml_models.py)                   *)
(***************************************************************************)
\* The provider's data (data_fetcher.py).  A frame is the rows a fetch
\* returned, or the failure of the fetch; of a row only the columns some
\* loop reads are kept (driverId, position, constructor).  A position is a
\* number or absent (None, NaN in a frame).
RaceDrivers == 1..NDrivers
Present(v) == [present |-> TRUE, v |-> v]
Absent == [present |-> FALSE, v |-> 0]
Frame(rows) == [ok |-> TRUE, rows |-> rows]
FetchFailed == [ok |-> FALSE, rows |-> <<>>]
ConstructorOf(d) == IF d % 2 = 1 THEN "M" ELSE "F"

\* The members of a set of drivers in ascending (up) or descending order.
RECURSIVE Ordered(_, _)
Ordered(S, up) ==
    IF S = {} THEN <<>>
    ELSE LET d == CHOOSE x \in S : \A z \in S : IF up THEN x <= z ELSE x >= z
         IN  <<d>> \o Ordered(S \ {d}, up)
IndexOf(s, x) == CHOOSE i \in 1..Len(s) : s[i] = x

\* fetch_qualifying: the drivers Q that qualified, in grid order.
QualifyingFrame(Q) ==
    LET grid == Ordered(Q, TRUE)
    IN  Frame([i \in 1..Len(grid) |->
                 [driverId |-> grid[i], position |-> Present(i),
                  constructor |-> ConstructorOf(grid[i])]])
\* fetch_results: the drivers R of the classification, those of Cl with a
\* finish position (in the order of their ids, or the reverse), the others
\* with none.
ResultsFrame(R, Cl, up) ==
    LET rows == Ordered(R, TRUE)
        finish == Ordered(Cl, up)
    IN  Frame([i \in 1..Len(rows) |->
                 [driverId |-> rows[i],
                  position |-> IF rows[i] \in Cl
                               THEN Present(IndexOf(finish, rows[i])) ELSE Absent,
                  constructor |-> ConstructorOf(rows[i])]])
QualifyingFrames == {QualifyingFrame(Q) : Q \in SUBSET RaceDrivers}
ResultsFrames ==
    {ResultsFrame(R, Cl, up) :
        <<R, Cl, up>> \in {t \in (SUBSET RaceDrivers) \X (SUBSET RaceDrivers) \X BOOLEAN :
                              t[2] \subseteq t[1]}}

\* DataFrame[[...]]: the projection of each row on some columns.
Project(rows, cols) == [i \in 1..Len(rows) |-> [c \in cols |-> rows[i][c]]]
\* DataFrame.merge(right, on=key, suffixes=(sl, sr)), an inner join: a column
\* other than the key that both frames have is renamed in both, the left one
\* with sl and the right one with sr.
Suffixed(c, others, key, sfx) == IF c # key /\ c \in others THEN c \o sfx ELSE c
MergedColumns(lcols, rcols, key, sl, sr) ==
    {Suffixed(c, rcols, key, sl) : c \in lcols}
        \cup {Suffixed(c, lcols, key, sr) : c \in rcols \ {key}}
MergeRow(l, r, key, sl, sr) ==
    [k \in MergedColumns(DOMAIN l, DOMAIN r, key, sl, sr) |->
        IF \E c \in DOMAIN l : Suffixed(c, DOMAIN r, key, sl) = k
        THEN l[CHOOSE c \in DOMAIN l : Suffixed(c, DOMAIN r, key, sl) = k]
        ELSE r[CHOOSE c \in DOMAIN r : Suffixed(c, DOMAIN l, key, sr) = k]]
RECURSIVE Merge(_, _, _, _, _)
Merge(left, right, key, sl, sr) ==
    IF left = <<>> THEN <<>>
    ELSE LET l == Head(left)
             matches == SelectSeq(right, LAMBDA r : r[key] = l[key])
         IN  [i \in 1..Len(matches) |-> MergeRow(l, matches[i], key, sl, sr)]
                \o Merge(Tail(left), right, key, sl, sr)

QualifyingColumns == {"driverId", "position", "constructor"}

VARIABLES
    agg_op,            \* the operation that runs
    agg_pc,            \* where it is: "fetch_races", "loop", "fetched", "returned"
    n_years,           \* the years requested
    year,              \* index of the year being processed
    races,             \* rounds of that year's race list
    round,             \* the round being processed
    qual,              \* the qualifying frame fetched for the round (none between rounds)
    results,           \* the results frame fetched for the round
    analysis_results,  \* analyze_qualifying_impact: the rows so far
    X_data,            \* prepare_training_data, prepare_data: the features so far
    y_data,            \* ... and the targets
    agg_ret            \* what the operation returned

aggVars == <<agg_op, agg_pc, n_years, year, races, round, qual, results,
             analysis_results, X_data, y_data, agg_ret>>

NoFrame == Frame(<<>>)
\* len(merged) > 3
MinPairs == 3

\* scipy.stats.spearmanr(x, y): kept as the two samples it is given.
Spearmanr(x, y) == [x |-> x, y |-> y]

\* analyze_qualifying_impact, the body of the loop over races, for one race:
\* the rows after it.  Whatever is raised inside the try, a failed fetch or a
\* KeyError for a column the merged frame does not have, skips the race.
analyze_qualifying_impact_race(rows, r, q, res) ==
    IF ~q.ok \/ ~res.ok THEN rows
    ELSE IF q.rows = <<>> \/ res.rows = <<>> THEN rows
    ELSE LET right == {"driverId", "position"}
             cols == MergedColumns(QualifyingColumns, right, "driverId", "_qual", "_race")
             merged == Merge(q.rows, Project(res.rows, right), "driverId", "_qual", "_race")
         IN  IF "position_race" \notin cols THEN rows
             ELSE LET kept == SelectSeq(merged, LAMBDA m : m["position_race"].present)
                  IN  IF Len(kept) > MinPairs
                      THEN IF "position" \notin cols THEN rows
                           ELSE Append(rows,
                                  [round |-> r,
                                   correlation |->
                                      Spearmanr([i \in 1..Len(kept) |-> kept[i]["position"].v],
                                                [i \in 1..Len(kept) |-> kept[i]["position_race"].v]),
                                   samples |-> Len(kept)])
                      ELSE rows

\* prepare_training_data, "for _, row in merged.iterrows()": the examples
\* after the rows; a KeyError ends the loop with what was appended so far.
RECURSIVE training_rows(_, _)
training_rows(merged, acc) ==
    IF merged = <<>> THEN acc
    ELSE LET row == Head(merged)
         IN  IF "position_race" \notin DOMAIN row THEN acc
             ELSE IF ~row["position_race"].present THEN training_rows(Tail(merged), acc)
             ELSE IF "position" \notin DOMAIN row THEN acc
             ELSE IF ~row["position"].present THEN training_rows(Tail(merged), acc)
             ELSE IF "constructor" \notin DOMAIN row THEN acc
             ELSE training_rows(Tail(merged),
                    [X |-> Append(acc.X, [grid_position |-> row["position"].v,
                                          driver |-> row["driverId"],
                                          constructor |-> row["constructor"]]),
                     y |-> Append(acc.y, row["position_race"].v)])

\* prepare_training_data, the body of the loop over races, for one race.
prepare_training_data_race(acc, q, res) ==
    IF ~q.ok \/ ~res.ok THEN acc
    ELSE IF q.rows = <<>> \/ res.rows = <<>> THEN acc
    ELSE LET right == {"driverId", "position", "constructor"}
             cols == MergedColumns(QualifyingColumns, right, "driverId", "_qual", "_race")
             merged == Merge(q.rows, Project(res.rows, right), "driverId", "_qual", "_race")
         IN  IF "position_race" \notin cols THEN acc
             ELSE training_rows(SelectSeq(merged, LAMBDA m : m["position_race"].present),
                                acc)

\* prepare_data, "for _, row in merged.iterrows()".
RECURSIVE delta_rows(_, _)
delta_rows(merged, acc) ==
    IF merged = <<>> THEN acc
    ELSE LET row == Head(merged)
         IN  IF "position_race" \notin DOMAIN row THEN acc
             ELSE IF ~row["position_race"].present THEN delta_rows(Tail(merged), acc)
             ELSE IF "position" \notin DOMAIN row THEN acc
             ELSE delta_rows(Tail(merged),
                    [X |-> Append(acc.X, <<row["position"].v>>),
                     y |-> Append(acc.y, row["position_race"].v - row["position"].v)])

\* prepare_data, the body of the loop over races, for one race.
prepare_data_race(acc, q, res) ==
    IF ~q.ok \/ ~res.ok THEN acc
    ELSE IF q.rows = <<>> \/ res.rows = <<>> THEN acc
    ELSE delta_rows(Merge(q.rows, Project(res.rows, {"driverId", "position"}),
                          "driverId", "_qual", "_race"), acc)

AggOps == {"analyze_qualifying_impact", "prepare_training_data", "prepare_data"}

\* The operation returns: a frame of the rows, or the pair (X, y).
AggResult ==
    IF agg_op = "analyze_qualifying_impact"
    THEN [tag |-> "frame", rows |-> analysis_results]
    ELSE [tag |-> "pair", X |-> X_data, y |-> y_data]

\* After a year: the next year of the list, or the return.
AggAfterYear ==
    IF year < n_years
    THEN /\ year' = year + 1
         /\ agg_pc' = "fetch_races"
         /\ agg_ret' = agg_ret
    ELSE /\ year' = year
         /\ agg_pc' = "returned"
         /\ agg_ret' = AggResult

\* fetch_races(year): the race list, or a failure.  analyze_qualifying_impact
\* fetches it outside any try, so a failure leaves the operation; the prepare
\* operations go on to the next year.
AggFetchRaces ==
    /\ agg_pc = "fetch_races"
    /\ \E outcome \in {"failed"} \cup {"listed"}, n \in 0..MaxRaces :
        IF outcome = "listed"
        THEN /\ races' = n
             /\ round' = 1
             /\ agg_pc' = "loop"
             /\ UNCHANGED <<year, agg_ret>>
        ELSE /\ UNCHANGED <<races, round>>
             /\ IF agg_op = "analyze_qualifying_impact"
                THEN /\ agg_pc' = "returned"
                     /\ agg_ret' = Raised("fetch_races")
                     /\ year' = year
                ELSE AggAfterYear
    /\ UNCHANGED <<agg_op, n_years, qual, results, analysis_results, X_data, y_data>>

\* The two fetches that open the body of the loop: fetch_qualifying, then
\* fetch_results unless the first one failed.
AggFetchRace ==
    /\ agg_pc = "loop" /\ round <= races
    /\ \E q \in QualifyingFrames \cup {FetchFailed},
          res \in ResultsFrames \cup {FetchFailed} :
        /\ q = FetchFailed => res = FetchFailed
        /\ qual' = q
        /\ results' = res
    /\ agg_pc' = "fetched"
    /\ UNCHANGED <<agg_op, n_years, year, races, round, analysis_results,
                   X_data, y_data, agg_ret>>

\* The rest of the body of the loop, on the frames fetched.
AggProcessRace ==
    /\ agg_pc = "fetched"
    /\ IF agg_op = "analyze_qualifying_impact"
       THEN /\ analysis_results' =
                  analyze_qualifying_impact_race(analysis_results, round, qual, results)
            /\ UNCHANGED <<X_data, y_data>>
       ELSE LET acc == IF agg_op = "prepare_training_data"
                       THEN prepare_training_data_race([X |-> X_data, y |-> y_data],
                                                       qual, results)
                       ELSE prepare_data_race([X |-> X_data, y |-> y_data], qual, results)
            IN  /\ X_data' = acc.X
                /\ y_data' = acc.y
                /\ UNCHANGED analysis_results
    /\ qual' = NoFrame
    /\ results' = NoFrame
    /\ round' = round + 1
    /\ agg_pc' = "loop"
    /\ UNCHANGED <<agg_op, n_years, year, races, agg_ret>>

\* The loop over the races of a year is over.
AggEndOfYear ==
    /\ agg_pc = "loop" /\ round > races
    /\ AggAfterYear
    /\ UNCHANGED <<agg_op, n_years, races, round, qual, results, analysis_results,
                   X_data, y_data>>

(***************************************************************************)
(* The views of analysis.py over one season or a range of years            *)
(***************************************************************************)
\* The result rows of a race as fetch_results returns them, with the points
\* column: the drivers of started in the order of their ids, those of
\* classified with a finish position (offset + their rank in the
\* classification, which runs in the order of the ids or the reverse) and
\* the points of that position, the others with no position and one point.
DriverName(d) == IF d = 1 THEN "Ann Ace" ELSE IF d = 2 THEN "Bo Best" ELSE "Cy Cole"
PointsFor(p) == IF p = 1 THEN 25 ELSE IF p = 2 THEN 18 ELSE IF p = 3 THEN 15 ELSE 10
SeasonFrame(started, classified, lineup, up, offset) ==
    LET rows == Ordered(started, TRUE)
        finish == Ordered(classified, up)
    IN  Frame([i \in 1..Len(rows) |->
            [driverId |-> rows[i],
             driverName |-> DriverName(rows[i]),
             position |-> IF rows[i] \in classified
                          THEN Present(offset + IndexOf(finish, rows[i])) ELSE Absent,
             points |-> IF rows[i] \in classified
                        THEN PointsFor(offset + IndexOf(finish, rows[i])) ELSE 1,
             constructor |-> lineup[rows[i]]]])
\* Which constructor a driver drives for in a race.
SoloLineup == [d \in 1..3 |-> IF d = 1 THEN "M" ELSE "F"]
PairLineup == [d \in 1..3 |-> IF d <= 2 THEN "M" ELSE "F"]
TrioLineup == [d \in 1..3 |-> "M"]
\* Two drivers of two constructors, anywhere in the classification.
SoloFrames ==
    {SeasonFrame(t[1], t[2], SoloLineup, t[3], t[4]) :
        t \in {u \in (SUBSET {1, 2}) \X (SUBSET {1, 2}) \X BOOLEAN \X {0, 3} :
                  u[2] \subseteq u[1]}}
\* Three drivers, of two constructors or all of one.
LineupFrames ==
    {SeasonFrame(t[1], t[2], t[3], TRUE, 0) :
        t \in {u \in (SUBSET {1, 2, 3}) \X (SUBSET {1, 2, 3}) \X {PairLineup, TrioLineup} :
                  u[2] \subseteq u[1]}}

VARIABLES
    view_op,     \* the view, or the fetch function, that runs
    view_pc,     \* where it is: "fetch_races", "loop", "returned"
    view_races,  \* the bound of its loop: the number of races, or the last year
    view_round,  \* the iteration about to run: a race, or a year
    view_seen,   \* what the fetches of the iterations so far returned (a fetch: the answer)
    view_acc,    \* the accumulator of the view
    view_ret     \* what the view returned

viewVars == <<view_op, view_pc, view_races, view_round, view_seen, view_acc, view_ret>>

ViewIdle ==
    /\ view_op = "none" /\ view_pc = "returned"
    /\ view_races = 0 /\ view_round = 0
    /\ view_seen = <<>> /\ view_acc = <<>> /\ view_ret = None

\* Entry of a view that lists the races of the season first.
ViewEntry(op) ==
    /\ view_op = op /\ view_pc = "fetch_races"
    /\ view_races = 0 /\ view_round = 1
    /\ view_seen = <<>> /\ view_acc = <<>> /\ view_ret = None

\* races = fetch_races(year), outside any try: a failure leaves the view.
ViewFetchRaces ==
    /\ view_pc = "fetch_races"
    /\ \/ \E n \in 0..MaxRaces :
            /\ view_races' = n
            /\ view_pc' = "loop"
            /\ view_ret' = view_ret
       \/ /\ view_races' = view_races
          /\ view_pc' = "returned"
          /\ view_ret' = Raised("fetch_races")
    /\ UNCHANGED <<view_op, view_round, view_seen, view_acc>>

\* A table of rows; pd.DataFrame([]) has no columns.
Table(rows) == [tag |-> "frame", rows |-> rows]

\* DataFrame.sort_values on one column: the rows in the order of their keys,
\* rows of equal keys in the order they had; less[i, j] tells whether the key
\* of row i is below that of row j.
SortValues(rows, less) ==
    LET n == Len(rows)
        pos(i) == Cardinality({j \in 1..n : \/ less[j, i]
                                            \/ ~less[i, j] /\ j < i}) + 1
    IN  [k \in 1..n |-> rows[CHOOSE i \in 1..n : pos(i) = k]]
\* Order of two quotients (denominators positive).
FracLess(a, b) == a.num * b.den < b.num * a.den

\* A dict keyed by column key, in insertion order: the index of a key.
HasKey(d, key, k) == \E i \in 1..Len(d) : d[i][key] = k
KeyIndex(d, key, k) == CHOOSE i \in 1..Len(d) : d[i][key] = k

\* The integers of a sequence in ascending order.
SortInts(s) == SortValues(s, [i, j \in 1..Len(s) |-> s[i] < s[j]])
\* np.mean, np.median of a non-empty list of positions; np.std, kept as the
\* variance it is the root of.
NpMean(p) == Frac(SumSeq(p), Len(p))
NpMedian(p) ==
    LET s == SortInts(p)
        n == Len(p)
    IN  IF n % 2 = 1 THEN Frac(s[(n + 1) \div 2], 1)
        ELSE Frac(s[n \div 2] + s[n \div 2 + 1], 2)
NpStd(p) ==
    LET n == Len(p)
        S == SumSeq(p)
        SS == SumSeq([i \in 1..n |-> p[i] * p[i]])
    IN  [tag |-> "sqrt", of |-> Frac(n * SS - S * S, n * n)]

(***************************************************************************)
(* calculate_driver_consistency                                            *)
(***************************************************************************)
PointsOfClassified(driver) == IF driver.position.present THEN driver.points ELSE 0
\* "... ['points'] += driver['points']" stands after the if/else on the
\* position: the points of every row are added.
PointsOfRow(driver) == driver.points

\* The body of "for _, driver in results.iterrows()" for one row.
consistency_row(driver_performances, driver) ==
    LET dp == IF HasKey(driver_performances, "driverId", driver.driverId)
              THEN driver_performances
              ELSE Append(driver_performances,
                          [driverId |-> driver.driverId,
                           constructor |-> driver.constructor,
                           positions |-> <<>>, points |-> 0,
                           races_completed |-> 0, races_dnf |-> 0])
        i == KeyIndex(dp, "driverId", driver.driverId)
        counted == IF driver.position.present
                   THEN [dp[i] EXCEPT !.positions = Append(@, driver.position.v),
                                      !.races_completed = @ + 1]
                   ELSE [dp[i] EXCEPT !.races_dnf = @ + 1]
    IN  [dp EXCEPT ![i] = [counted EXCEPT !.points = @ + PointsOfRow(driver)]]

RECURSIVE consistency_rows(_, _)
consistency_rows(driver_performances, rows) ==
    IF rows = <<>> THEN driver_performances
    ELSE consistency_rows(consistency_row(driver_performances, Head(rows)), Tail(rows))

\* The body of the loop over races: a failed fetch skips the race.
consistency_race(driver_performances, res) ==
    IF ~res.ok THEN driver_performances
    ELSE consistency_rows(driver_performances, res.rows)

\* The row of one driver with a finish position.
consistency_entry(data) ==
    LET started == data.races_completed + data.races_dnf
    IN  [driverId |-> data.driverId,
         constructor |-> data.constructor,
         races_started |-> started,
         races_completed |-> data.races_completed,
         races_dnf |-> data.races_dnf,
         completion_rate |-> IF started > 0 THEN Frac(data.races_completed, started)
                             ELSE Frac(0, 1),
         avgPosition |-> NpMean(data.positions),
         medianPosition |-> NpMedian(data.positions),
         stdPosition |-> IF Len(data.positions) > 1 THEN NpStd(data.positions)
                         ELSE PyInt(0),
         podiums |-> Len(SelectSeq(data.positions, LAMBDA p : p <= 3)),
         totalPoints |-> data.points,
         pointsPerRace |-> IF started > 0 THEN Frac(data.points, started) ELSE Frac(0, 1)]

\* "for driver_id, data in driver_performances.items()"
consistency_table(driver_performances) ==
    LET kept == SelectSeq(driver_performances, LAMBDA data : Len(data.positions) > 0)
    IN  [i \in 1..Len(kept) |-> consistency_entry(kept[i])]

KeepOrder(rows) == rows
\* .sort_values('avgPosition')
SortByAvgPosition(rows) ==
    SortValues(rows, [i, j \in 1..Len(rows) |->
                        FracLess(rows[i].avgPosition, rows[j].avgPosition)])

\* pd.DataFrame(consistency).sort_values('avgPosition'): a frame of no rows
\* has no column to sort by, and the lookup raises KeyError.
consistency_return(driver_performances) ==
    LET consistency == consistency_table(driver_performances)
    IN  IF consistency = <<>> THEN Raised("KeyError")
        ELSE Table(SortByAvgPosition(consistency))

\* One iteration of the loop over races.
ConsistencyRace ==
    /\ view_op = "calculate_driver_consistency"
    /\ view_pc = "loop" /\ view_round <= view_races
    /\ \E res \in SoloFrames \cup {FetchFailed} :
        /\ view_acc' = consistency_race(view_acc, res)
        /\ view_seen' = Append(view_seen, res)
    /\ view_round' = view_round + 1
    /\ UNCHANGED <<view_op, view_pc, view_races, view_ret>>

\* After the loop: the table, sorted.
ConsistencyReturn ==
    /\ view_op = "calculate_driver_consistency"
    /\ view_pc = "loop" /\ view_round > view_races
    /\ view_ret' = consistency_return(view_acc)
    /\ view_pc' = "returned"
    /\ UNCHANGED <<view_op, view_races, view_round, view_seen, view_acc>>

(***************************************************************************)
(* analyze_teammate_performance                                            *)
(***************************************************************************)
\* The body of "for _, driver in results.iterrows()" for one row: the
\* drivers are kept per constructor; a finish position adds a race, the
\* points are added in any case.
teammate_row(constructor_drivers, driver) ==
    LET cd == IF HasKey(constructor_drivers, "constructor", driver.constructor)
              THEN constructor_drivers
              ELSE Append(constructor_drivers,
                          [constructor |-> driver.constructor, drivers |-> <<>>])
        c == KeyIndex(cd, "constructor", driver.constructor)
        ds == IF HasKey(cd[c].drivers, "driverId", driver.driverId)
              THEN cd[c].drivers
              ELSE Append(cd[c].drivers,
                          [driverId |-> driver.driverId, name |-> driver.driverName,
                           positions |-> <<>>, points |-> 0, races |-> 0])
        i == KeyIndex(ds, "driverId", driver.driverId)
        counted == IF driver.position.present
                   THEN [ds[i] EXCEPT !.positions = Append(@, driver.position.v),
                                      !.races = @ + 1]
                   ELSE ds[i]
    IN  [cd EXCEPT ![c] = [@ EXCEPT !.drivers =
            [ds EXCEPT ![i] = [counted EXCEPT !.points = @ + driver.points]]]]

RECURSIVE teammate_rows(_, _)
teammate_rows(constructor_drivers, rows) ==
    IF rows = <<>> THEN constructor_drivers
    ELSE teammate_rows(teammate_row(constructor_drivers, Head(rows)), Tail(rows))

\* The body of the loop over races: a failed fetch skips the race.
teammate_race(constructor_drivers, res) ==
    IF ~res.ok THEN constructor_drivers
    ELSE teammate_rows(constructor_drivers, res.rows)

AtLeastTwoDrivers(drivers) == Len(drivers) >= 2
\* "if len(drivers) == 2"
TwoDrivers(drivers) == Len(drivers) = 2

\* The comparison of the two drivers of a constructor.
teammate_comparison(entry) ==
    LET driver_list == entry.drivers
    IN  [constructor |-> entry.constructor,
         driver1 |-> driver_list[1].name,
         driver2 |-> driver_list[2].name,
         driver1_avgPos |-> NpMean(driver_list[1].positions),
         driver2_avgPos |-> NpMean(driver_list[2].positions),
         driver1_points |-> driver_list[1].points,
         driver2_points |-> driver_list[2].points,
         driver1_races |-> driver_list[1].races,
         driver2_races |-> driver_list[2].races]

\* "for constructor, drivers in constructor_drivers.items()", and the table
\* of the comparisons, in the order of the dict.
teammate_return(constructor_drivers) ==
    LET kept == SelectSeq(constructor_drivers,
                    LAMBDA e : /\ TwoDrivers(e.drivers)
                               /\ e.drivers[1].races > 0 /\ e.drivers[2].races > 0)
    IN  Table([k \in 1..Len(kept) |-> teammate_comparison(kept[k])])

\* One iteration of the loop over races.
TeammateRace ==
    /\ view_op = "analyze_teammate_performance"
    /\ view_pc = "loop" /\ view_round <= view_races
    /\ \E res \in LineupFrames \cup {FetchFailed} :
        /\ view_acc' = teammate_race(view_acc, res)
        /\ view_seen' = Append(view_seen, res)
    /\ view_round' = view_round + 1
    /\ UNCHANGED <<view_op, view_pc, view_races, view_ret>>

\* After the loop: the comparisons.
TeammateReturn ==
    /\ view_op = "analyze_teammate_performance"
    /\ view_pc = "loop" /\ view_round > view_races
    /\ view_ret' = teammate_return(view_acc)
    /\ view_pc' = "returned"
    /\ UNCHANGED <<view_op, view_races, view_round, view_seen, view_acc>>

(***************************************************************************)
(* float64, as the durations of pit stops are computed with                *)
(***************************************************************************)
\* A positive double is (hi * Limb + lo) * 2^e with a mantissa of 53 bits,
\* HiBit <= hi < 2 * HiBit; zero has mantissa 0.
Limb == 2^27
HiBit == 2^25
Float64Zero == [hi |-> 0, lo |-> 0, e |-> 0]

\* Round to nearest, ties to even: the double nearest to
\* (hi * Limb + lo + a fraction below 1, non-zero iff sticky) * 2^e, for a
\* mantissa of 53 to 58 bits (one of 53 bits has no fraction).
Float64Round(hi, lo, e, sticky) ==
    LET sh == CHOOSE s \in 0..5 : HiBit <= hi \div 2^s /\ hi \div 2^s < 2 * HiBit
        q_hi == hi \div 2^sh
        q_lo == (hi % 2^sh) * 2^(27 - sh) + lo \div 2^sh
        rem == lo % 2^sh
        half == 2^(sh - 1)
        up == /\ sh >= 1
              /\ \/ rem > half
                 \/ rem = half /\ (sticky \/ q_lo % 2 = 1)
        r_lo == IF up THEN (q_lo + 1) % Limb ELSE q_lo
        r_hi == IF up /\ q_lo + 1 = Limb THEN q_hi + 1 ELSE q_hi
    IN  IF r_hi = 2 * HiBit THEN [hi |-> HiBit, lo |-> 0, e |-> e + sh + 1]
        ELSE [hi |-> r_hi, lo |-> r_lo, e |-> e + sh]

\* x + y of two doubles whose exponents differ by 4 at most.
Float64Add(x, y) ==
    IF x = Float64Zero THEN y
    ELSE IF y = Float64Zero THEN x
    ELSE LET a == IF x.e >= y.e THEN x ELSE y
             b == IF x.e >= y.e THEN y ELSE x
             d == a.e - b.e
             s_hi == a.hi * 2^d + a.lo \div 2^(27 - d)
             s_lo == (a.lo % 2^(27 - d)) * 2^d
         IN  Float64Round(s_hi + b.hi + (s_lo + b.lo) \div Limb, (s_lo + b.lo) % Limb,
                    b.e, FALSE)

\* x / n for a count n of 1 to 7.
Float64DivInt(x, n) ==
    LET hi16 == x.hi * 16 + x.lo \div 2^23
        lo16 == (x.lo % 2^23) * 16
        t == (hi16 % n) * Limb + lo16
    IN  Float64Round(hi16 \div n, t \div n, x.e - 4, t % n # 0)

\* x < y, x <= y of two positive doubles.
Float64Less(x, y) ==
    \/ x.e < y.e
    \/ x.e = y.e /\ (x.hi < y.hi \/ (x.hi = y.hi /\ x.lo < y.lo))
Float64Leq(x, y) == ~Float64Less(y, x)

\* float(text) of a text of decimal digits with at most one fractional
\* digit, of a value of 1 at least: the double nearest to k / 10^f.
Digits == <<"0", "1", "2", "3", "4", "5", "6", "7", "8", "9">>
IsDigit(c) == \E i \in 1..10 : Digits[i] = c
DigitValue(c) == (CHOOSE i \in 1..10 : Digits[i] = c) - 1
RECURSIVE DigitsValue(_)
DigitsValue(text) ==
    IF text = <<>> THEN 0
    ELSE 10 * DigitsValue(SubSeq(text, 1, Len(text) - 1)) + DigitValue(text[Len(text)])
\* Whether float(text) returns: digits around at most one point.
Parseable(text) ==
    /\ \A i \in 1..Len(text) : IsDigit(text[i]) \/ text[i] = "."
    /\ Cardinality({i \in 1..Len(text) : text[i] = "."}) <= 1
    /\ \E i \in 1..Len(text) : IsDigit(text[i])
ParseFloat(text) ==
    LET point == IF \E i \in 1..Len(text) : text[i] = "."
                 THEN CHOOSE i \in 1..Len(text) : text[i] = "." ELSE Len(text) + 1
        k == DigitsValue(SelectSeq(text, IsDigit))
        D == 10^(IF point > Len(text) THEN 0 ELSE Len(text) - point)
        a == CHOOSE b \in 0..8 : D * 2^b <= k /\ k < D * 2^(b + 1)
        hi == k * 2^(26 - a)
    IN  Float64Round(hi \div D, ((hi % D) * Limb) \div D, a - 53, ((hi % D) * Limb) % D # 0)

\* np.mean, np.min, np.max of a non-empty list of doubles: the sum, added
\* up in the order of the list, divided by the count.
RECURSIVE Float64Sum(_)
Float64Sum(s) == IF s = <<>> THEN Float64Zero ELSE Float64Add(Float64Sum(SubSeq(s, 1, Len(s) - 1)), s[Len(s)])
Float64Mean(s) == Float64DivInt(Float64Sum(s), Len(s))
Float64Min(s) == s[CHOOSE i \in 1..Len(s) : \A j \in 1..Len(s) : Float64Leq(s[i], s[j])]
Float64Max(s) == s[CHOOSE i \in 1..Len(s) : \A j \in 1..Len(s) : Float64Leq(s[j], s[i])]

(***************************************************************************)
(* analyze_pit_stop_performance                                            *)
(***************************************************************************)
\* The duration of a stop as fetch_pit_stops leaves it: the text of the
\* payload, or None for a stop without one.
NoDuration == [present |-> FALSE, v |-> <<>>]
Duration(text) == [present |-> TRUE, v |-> text]
\* The stops a race may list: of driver 1 without a duration, of 10.7 s and
\* of a minute and more; of driver 2 with an empty duration and of 9.5 s.
PitStops ==
    {[driverId |-> 1, duration |-> NoDuration],
     [driverId |-> 1, duration |-> Duration(<<"1", "0", ".", "7">>)],
     [driverId |-> 1, duration |-> Duration(<<"1", ":", "0", "2", ".", "3">>)],
     [driverId |-> 2, duration |-> Duration(<<>>)],
     [driverId |-> 2, duration |-> Duration(<<"9", ".", "5">>)]}
\* What fetch_pit_stops returns: no stop, one or two.
PitStopFrames ==
    {Frame(<<>>)} \cup {Frame(<<a>>) : a \in PitStops}
        \cup {Frame(<<a, b>>) : a \in PitStops, b \in PitStops}
\* What fetch_results returns beside them: nothing, or driver 1 alone.
PitResultFrames == {Frame(<<>>), SeasonFrame({1}, {1}, SoloLineup, TRUE, 0)}

\* bool(ps['duration']): neither None nor the empty text.
Truthy(duration) == duration.present /\ duration.v # <<>>

\* results[results['driverId'] == driver_id]['driverName'].values[0], or
\* 'Unknown' for a driver without a result.
pit_driver(res, driver_id) ==
    LET own == SelectSeq(res.rows, LAMBDA r : r.driverId = driver_id)
    IN  IF Len(own) > 0 THEN own[1].driverName ELSE "Unknown"

\* The body of "for _, ps in pit_stops.iterrows()" for one stop.
pit_stop(pit_stop_data, res, ps) ==
    LET pd == IF HasKey(pit_stop_data, "driverId", ps.driverId)
              THEN pit_stop_data
              ELSE Append(pit_stop_data,
                          [driverId |-> ps.driverId,
                           driver |-> pit_driver(res, ps.driverId),
                           total_stops |-> 0, stop_durations |-> <<>>])
        i == KeyIndex(pd, "driverId", ps.driverId)
        counted == [pd[i] EXCEPT !.total_stops = @ + 1]
    IN  [pd EXCEPT ![i] =
            IF Truthy(ps.duration) /\ Parseable(ps.duration.v)
            THEN [counted EXCEPT !.stop_durations = Append(@, ParseFloat(ps.duration.v))]
            ELSE counted]

RECURSIVE pit_stops_rows(_, _, _)
pit_stops_rows(pit_stop_data, res, stops) ==
    IF stops = <<>> THEN pit_stop_data
    ELSE pit_stops_rows(pit_stop(pit_stop_data, res, Head(stops)), res, Tail(stops))

SkipNoPitStops(pit_stops, res) == pit_stops.rows = <<>>
\* "if pit_stops.empty or results.empty: continue"
SkipRace(pit_stops, res) == pit_stops.rows = <<>> \/ res.rows = <<>>

\* The body of the loop over races: a failed fetch of either skips the race.
pit_race(pit_stop_data, pit_stops, res) ==
    IF ~pit_stops.ok \/ ~res.ok THEN pit_stop_data
    ELSE IF SkipRace(pit_stops, res) THEN pit_stop_data
    ELSE pit_stops_rows(pit_stop_data, res, pit_stops.rows)

\* The row of a driver with a duration.
pit_entry(data) ==
    [driverId |-> data.driverId,
     driver |-> data.driver,
     total_stops |-> data.total_stops,
     avg_stop_duration |-> Float64Mean(data.stop_durations),
     min_stop_duration |-> Float64Min(data.stop_durations),
     max_stop_duration |-> Float64Max(data.stop_durations)]

\* "for driver_id, data in pit_stop_data.items()", and the table sorted by
\* avg_stop_duration, or pd.DataFrame() when there is no row.
pit_return(pit_stop_data) ==
    LET kept == SelectSeq(pit_stop_data, LAMBDA data : data.stop_durations # <<>>)
        pit_analysis == [i \in 1..Len(kept) |-> pit_entry(kept[i])]
    IN  IF pit_analysis # <<>>
        THEN Table(SortValues(pit_analysis, [i, j \in 1..Len(pit_analysis) |->
                Float64Less(pit_analysis[i].avg_stop_duration,
                            pit_analysis[j].avg_stop_duration)]))
        ELSE Table(<<>>)

\* One iteration of the loop over races: the two fetches, the second only
\* when the first returned.
PitRace ==
    /\ view_op = "analyze_pit_stop_performance"
    /\ view_pc = "loop" /\ view_round <= view_races
    /\ \E pit_stops \in PitStopFrames \cup {FetchFailed} :
       \E res \in IF pit_stops.ok THEN PitResultFrames \cup {FetchFailed}
                  ELSE {FetchFailed} :
        /\ view_acc' = pit_race(view_acc, pit_stops, res)
        /\ view_seen' = Append(view_seen, [pit_stops |-> pit_stops, results |-> res])
    /\ view_round' = view_round + 1
    /\ UNCHANGED <<view_op, view_pc, view_races, view_ret>>

\* After the loop: the table, sorted.
PitReturn ==
    /\ view_op = "analyze_pit_stop_performance"
    /\ view_pc = "loop" /\ view_round > view_races
    /\ view_ret' = pit_return(view_acc)
    /\ view_pc' = "returned"
    /\ UNCHANGED <<view_op, view_races, view_round, view_seen, view_acc>>

(***************************************************************************)
(* analyze_team_performance                                                *)
(***************************************************************************)
\* The body of "for _, driver in results.iterrows()" for one row.
team_row(constructor_stats, driver) ==
    LET cs == IF HasKey(constructor_stats, "constructor", driver.constructor)
              THEN constructor_stats
              ELSE Append(constructor_stats,
                          [constructor |-> driver.constructor,
                           totalPoints |-> 0, totalWins |-> 0, podiums |-> 0,
                           races |-> 0, positions |-> <<>>])
        i == KeyIndex(cs, "constructor", driver.constructor)
        paid == [cs[i] EXCEPT !.totalPoints = @ + driver.points]
    IN  [cs EXCEPT ![i] =
            IF driver.position.present
            THEN [paid EXCEPT
                    !.races = @ + 1,
                    !.positions = Append(@, driver.position.v),
                    !.totalWins = IF driver.position.v = 1 THEN @ + 1 ELSE @,
                    !.podiums = IF driver.position.v <= 3 THEN @ + 1 ELSE @]
            ELSE paid]

RECURSIVE team_rows(_, _)
team_rows(constructor_stats, rows) ==
    IF rows = <<>> THEN constructor_stats
    ELSE team_rows(team_row(constructor_stats, Head(rows)), Tail(rows))

\* The body of the loop over races: a failed fetch skips the race.
team_race(constructor_stats, res) ==
    IF ~res.ok THEN constructor_stats
    ELSE team_rows(constructor_stats, res.rows)

\* The row of a constructor.
team_entry(stats_dict) ==
    [constructor |-> stats_dict.constructor,
     totalPoints |-> stats_dict.totalPoints,
     totalWins |-> stats_dict.totalWins,
     podiums |-> stats_dict.podiums,
     avgPosition |-> IF stats_dict.positions # <<>> THEN NpMean(stats_dict.positions)
                     ELSE None,
     races_participated |-> stats_dict.races]

\* .sort_values('totalPoints', ascending=False)
SortByTotalPoints(rows) ==
    SortValues(rows, [i, j \in 1..Len(rows) |-> rows[i].totalPoints > rows[j].totalPoints])

\* pd.DataFrame(team_data).sort_values('totalPoints', ascending=False): a
\* frame of no rows has no column to sort by, and the lookup raises KeyError.
team_return(constructor_stats) ==
    LET team_data == [i \in 1..Len(constructor_stats) |-> team_entry(constructor_stats[i])]
    IN  IF team_data = <<>> THEN Raised("KeyError")
        ELSE Table(SortByTotalPoints(team_data))

\* Entry: the driver standings are fetched, and not used.
TeamEntry ==
    /\ view_op = "analyze_team_performance" /\ view_pc = "fetch_standings"
    /\ view_races = 0 /\ view_round = 1
    /\ view_seen = <<>> /\ view_acc = <<>> /\ view_ret = None

\* standings = fetch_season_standings(year), outside any try.
TeamFetchStandings ==
    /\ view_op = "analyze_team_performance" /\ view_pc = "fetch_standings"
    /\ \/ view_pc' = "fetch_races" /\ view_ret' = view_ret
       \/ view_pc' = "returned" /\ view_ret' = Raised("fetch_season_standings")
    /\ UNCHANGED <<view_op, view_races, view_round, view_seen, view_acc>>

\* One iteration of the loop over races.
TeamRace ==
    /\ view_op = "analyze_team_performance"
    /\ view_pc = "loop" /\ view_round <= view_races
    /\ \E res \in SoloFrames \cup {FetchFailed} :
        /\ view_acc' = team_race(view_acc, res)
        /\ view_seen' = Append(view_seen, res)
    /\ view_round' = view_round + 1
    /\ UNCHANGED <<view_op, view_pc, view_races, view_ret>>

\* After the loop: the table, sorted.
TeamReturn ==
    /\ view_op = "analyze_team_performance"
    /\ view_pc = "loop" /\ view_round > view_races
    /\ view_ret' = team_return(view_acc)
    /\ view_pc' = "returned"
    /\ UNCHANGED <<view_op, view_races, view_round, view_seen, view_acc>>

(***************************************************************************)
(* The views over a range of years                                         *)
(***************************************************************************)
\* The first year of the range asked for, and the driver asked for.
StartYear == 2020
TheDriver == 1

\* Entry of a view over range(start_year, end_year + 1): view_round is the
\* year about to run and view_races the last year, from the year before the
\* first (an empty range) on.
RangeEntry(op) ==
    /\ view_op = op /\ view_pc = "loop"
    /\ view_round = StartYear
    /\ view_races \in (StartYear - 1)..(StartYear + MaxYears - 1)
    /\ view_seen = <<>> /\ view_acc = <<>> /\ view_ret = None

BeforeEnd(yr, end_year) == yr < end_year
\* "for year in range(start_year, end_year + 1)"
InRange(yr, end_year) == yr < end_year + 1

(***************************************************************************)
(* analyze_constructor_dominance_trend                                     *)
(***************************************************************************)
\* The constructor standings of a year as fetch_constructor_standings
\* returns them: the constructors in the order of their rank, with the
\* points and wins of a season of so many races.
ConstructorStandings(order, length) ==
    Frame([i \in 1..Len(order) |->
        [constructor |-> order[i], position |-> i,
         points |-> length * PointsFor(i),
         wins |-> IF i = 1 THEN length ELSE 0]])
ConstructorStandingsFrames ==
    {ConstructorStandings(order, length) :
        order \in {<<>>, <<"M">>, <<"F">>, <<"M", "F">>, <<"F", "M">>},
        length \in {1, 2}}

\* The body of "for _, team in standings.iterrows()", for all the rows.
trend_rows(yr, standings) ==
    [i \in 1..Len(standings.rows) |->
        [year |-> yr,
         constructor |-> standings.rows[i].constructor,
         points |-> standings.rows[i].points,
         wins |-> standings.rows[i].wins,
         position |-> standings.rows[i].position]]

\* The body of the loop over years: a failed fetch skips the year.
trend_year(dominance_data, yr, standings) ==
    IF ~standings.ok THEN dominance_data
    ELSE dominance_data \o trend_rows(yr, standings)

\* One iteration of the loop over years.
TrendYear ==
    /\ view_op = "analyze_constructor_dominance_trend"
    /\ view_pc = "loop" /\ InRange(view_round, view_races)
    /\ \E standings \in ConstructorStandingsFrames \cup {FetchFailed} :
        /\ view_acc' = trend_year(view_acc, view_round, standings)
        /\ view_seen' = Append(view_seen, [year |-> view_round, standings |-> standings])
    /\ view_round' = view_round + 1
    /\ UNCHANGED <<view_op, view_pc, view_races, view_ret>>

\* After the loop: pd.DataFrame(dominance_data), in the order appended.
TrendReturn ==
    /\ view_op = "analyze_constructor_dominance_trend"
    /\ view_pc = "loop" /\ ~InRange(view_round, view_races)
    /\ view_ret' = Table(view_acc)
    /\ view_pc' = "returned"
    /\ UNCHANGED <<view_op, view_races, view_round, view_seen, view_acc>>


(***************************************************************************)
(* calculate_driver_career_trajectory                                      *)
(***************************************************************************)
\* The driver standings of a year as fetch_season_standings returns them:
\* the drivers in the order of their rank, with the points and wins of a
\* season of three races, each with the constructor of the lineup.
DriverStandings(order) ==
    Frame([i \in 1..Len(order) |->
        [driverId |-> order[i], driverName |-> DriverName(order[i]),
         position |-> i, points |-> 3 * PointsFor(i),
         wins |-> IF i = 1 THEN 3 ELSE 0,
         constructor |-> SoloLineup[order[i]]]])
DriverStandingsFrames ==
    {DriverStandings(order) : order \in {<<>>, <<2>>, <<1, 2>>, <<2, 1>>}}
\* The results of a race of such a year: without the driver, with the driver
\* unclassified, with the driver first or fifth; or the fetch fails.
CareerResults ==
    {FetchFailed,
     SeasonFrame({2}, {2}, SoloLineup, TRUE, 0),
     SeasonFrame({1, 2}, {2}, SoloLineup, TRUE, 0),
     SeasonFrame({1, 2}, {1, 2}, SoloLineup, TRUE, 0),
     SeasonFrame({1, 2}, {1, 2}, SoloLineup, FALSE, 3)}
\* The races of a year, each with what fetch_results returns for it: none,
\* one or two.
CareerSeasons ==
    {Frame(<<>>)} \cup {Frame(<<a>>) : a \in CareerResults}
        \cup {Frame(<<a, b>>) : a \in CareerResults, b \in CareerResults}

\* standings[standings['driverId'] == driver_id]; a frame without rows has
\* no such column, and the lookup raises KeyError.
career_driver_data(standings, driver_id) ==
    IF standings.rows = <<>> THEN Raised("KeyError")
    ELSE Table(SelectSeq(standings.rows, LAMBDA r : r.driverId = driver_id))

\* The body of the loop over the races of the year for one race: a failed
\* fetch passes.
career_race(season_stats, res, driver_id) ==
    IF ~res.ok THEN season_stats
    ELSE LET driver_race == SelectSeq(res.rows, LAMBDA r : r.driverId = driver_id)
         IN  IF driver_race # <<>> /\ driver_race[1].position.present
             THEN [season_stats EXCEPT
                     !.positions = Append(@, driver_race[1].position.v),
                     !.races_completed = @ + 1]
             ELSE season_stats

RECURSIVE career_races(_, _, _)
career_races(season_stats, season, driver_id) ==
    IF season = <<>> THEN season_stats
    ELSE career_races(career_race(season_stats, Head(season), driver_id),
                      Tail(season), driver_id)

\* trajectory.append: the standings row, and the statistics of the races.
career_entry(yr, row, season_stats) ==
    [year |-> yr,
     position |-> row.position,
     points |-> row.points,
     wins |-> row.wins,
     constructor |-> row.constructor,
     avgPosition |-> IF season_stats.positions # <<>> THEN NpMean(season_stats.positions)
                     ELSE None,
     races_completed |-> season_stats.races_completed]

\* races = fetch_races(year) stands inside the try of the year: when it
\* raises, the year is left.
RacesListed(race_list) == race_list.ok

\* The body of the loop over years: the standings, and for a year with the
\* driver in them the races; whatever raises outside the loop over the
\* races skips the year.
career_year(trajectory, yr, standings, race_list, driver_id) ==
    IF ~standings.ok THEN trajectory
    ELSE LET driver_data == career_driver_data(standings, driver_id)
         IN  IF driver_data.tag = "raise" THEN trajectory
             ELSE IF driver_data.rows = <<>> THEN trajectory
             ELSE IF ~RacesListed(race_list) THEN trajectory
             ELSE Append(trajectory,
                    career_entry(yr, driver_data.rows[1],
                        career_races([positions |-> <<>>, points_earned |-> 0,
                                      races_completed |-> 0],
                                     race_list.rows, driver_id)))

\* Whether the races of the year are fetched: when the standings hold the
\* driver.
FetchesRaces(standings, driver_id) ==
    /\ standings.ok
    /\ \E i \in 1..Len(standings.rows) : standings.rows[i].driverId = driver_id

\* One iteration of the loop over years.
CareerYear ==
    /\ view_op = "calculate_driver_career_trajectory"
    /\ view_pc = "loop" /\ InRange(view_round, view_races)
    /\ \E standings \in DriverStandingsFrames \cup {FetchFailed} :
       \E race_list \in IF FetchesRaces(standings, TheDriver)
                    THEN CareerSeasons \cup {FetchFailed} ELSE {FetchFailed} :
        /\ view_acc' = career_year(view_acc, view_round, standings, race_list, TheDriver)
        /\ view_seen' = Append(view_seen,
                            [year |-> view_round, standings |-> standings, races |-> race_list])
    /\ view_round' = view_round + 1
    /\ UNCHANGED <<view_op, view_pc, view_races, view_ret>>

\* After the loop: pd.DataFrame(trajectory), in the order appended.
CareerReturn ==
    /\ view_op = "calculate_driver_career_trajectory"
    /\ view_pc = "loop" /\ ~InRange(view_round, view_races)
    /\ view_ret' = Table(view_acc)
    /\ view_pc' = "returned"
    /\ UNCHANGED <<view_op, view_races, view_round, view_seen, view_acc>>


(***************************************************************************)
(* analyze_track_suitability                                               *)
(***************************************************************************)
\* The races of a year as fetch_races lists them, each at a circuit and with
\* what fetch_results returns for it: none, one or two.
TrackRaces ==
    {[circuit |-> c, results |-> res] : c \in {"Monza", "Spa"}, res \in CareerResults}
TrackSeasons ==
    {Frame(<<>>)} \cup {Frame(<<a>>) : a \in TrackRaces}
        \cup {Frame(<<a, b>>) : a \in TrackRaces, b \in TrackRaces}

\* The body of the loop over the races of a year for one race: a failed
\* fetch, or a frame without rows and so without a driverId column, leaves
\* the race; the points of the driver's row are added in any case, a race
\* is counted for a finish position only.
track_race(circuit_performance, race, driver_id) ==
    IF ~race.results.ok \/ race.results.rows = <<>> THEN circuit_performance
    ELSE LET driver_results == SelectSeq(race.results.rows, LAMBDA r : r.driverId = driver_id)
         IN  IF driver_results = <<>> THEN circuit_performance
             ELSE LET cp == IF HasKey(circuit_performance, "circuit", race.circuit)
                            THEN circuit_performance
                            ELSE Append(circuit_performance,
                                        [circuit |-> race.circuit, positions |-> <<>>,
                                         points |-> 0, races |-> 0])
                      i == KeyIndex(cp, "circuit", race.circuit)
                      driver_row == driver_results[1]
                      counted == IF driver_row.position.present
                                 THEN [cp[i] EXCEPT
                                         !.positions = Append(@, driver_row.position.v),
                                         !.races = @ + 1]
                                 ELSE cp[i]
                  IN  [cp EXCEPT ![i] = [counted EXCEPT !.points = @ + driver_row.points]]

RECURSIVE track_races(_, _, _)
track_races(circuit_performance, season, driver_id) ==
    IF season = <<>> THEN circuit_performance
    ELSE track_races(track_race(circuit_performance, Head(season), driver_id),
                     Tail(season), driver_id)

\* The body of the loop over years: a year whose list of races cannot be
\* fetched is left.
track_year(circuit_performance, race_list, driver_id) ==
    IF ~race_list.ok THEN circuit_performance
    ELSE track_races(circuit_performance, race_list.rows, driver_id)

\* The row of a circuit with a finish position.
track_entry(perf) ==
    [circuit |-> perf.circuit,
     races |-> perf.races,
     avgPosition |-> NpMean(perf.positions),
     totalPoints |-> perf.points,
     pointsPerRace |-> Frac(perf.points, perf.races)]

\* pd.DataFrame(suitability).sort_values('avgPosition'): a frame of no rows
\* has no column to sort by, and the lookup raises KeyError.
track_return(circuit_performance) ==
    LET kept == SelectSeq(circuit_performance, LAMBDA perf : perf.races > 0)
        suitability == [i \in 1..Len(kept) |-> track_entry(kept[i])]
    IN  IF suitability = <<>> THEN Raised("KeyError")
        ELSE Table(SortByAvgPosition(suitability))

\* One iteration of the loop over years.
TrackYear ==
    /\ view_op = "analyze_track_suitability"
    /\ view_pc = "loop" /\ InRange(view_round, view_races)
    /\ \E race_list \in TrackSeasons \cup {FetchFailed} :
        /\ view_acc' = track_year(view_acc, race_list, TheDriver)
        /\ view_seen' = Append(view_seen, [year |-> view_round, races |-> race_list])
    /\ view_round' = view_round + 1
    /\ UNCHANGED <<view_op, view_pc, view_races, view_ret>>

\* After the loop: the table, sorted.
TrackReturn ==
    /\ view_op = "analyze_track_suitability"
    /\ view_pc = "loop" /\ ~InRange(view_round, view_races)
    /\ view_ret' = track_return(view_acc)
    /\ view_pc' = "returned"
    /\ UNCHANGED <<view_op, view_races, view_round, view_seen, view_acc>>

(***************************************************************************)
(* data_fetcher.py: from the provider's payload to a frame                 *)
(***************************************************************************)
\* The records of a payload a fetch converts, at most.
MaxRecords == 2

\* A key of a JSON object: missing, or there with its value.  A text is the
\* sequence of its characters.
NoKey == [present |-> FALSE, v |-> <<>>]
Key(v) == [present |-> TRUE, v |-> v]
\* d.get(key, default)
Get(key, default) == IF key.present THEN key.v ELSE default

\* What answers the request: requests.get raises, the body is not JSON, or
\* the body is a document.  RaceTable of a document may lack 'Races' and
\* the race of a round may lack its 'Results' or 'PitStops'.
NoAnswer == {[tag |-> "error", exc |-> "ConnectionError"],
             [tag |-> "error", exc |-> "JSONDecodeError"]}
Document(race_list) == [tag |-> "json", Races |-> race_list]
RECURSIVE ListsOf(_, _)
ListsOf(S, n) ==
    IF n = 0 THEN {<<>>}
    ELSE ListsOf(S, n - 1) \cup {Append(s, x) : s \in {t \in ListsOf(S, n - 1) : Len(t) = n - 1}, x \in S}

\* The result records of the provider: a position of digits ("1", "12"), a
\* letter ("R"), an empty one or none at all; a status or none.
RawPositions == {NoKey, Key(<<>>), Key(<<"1">>), Key(<<"1", "2">>), Key(<<"R">>)}
RawStatuses == {NoKey, Key(<<"D", "N", "F">>)}
RawResults == {[driverId |-> 1, position |-> p, status |-> s] : p \in RawPositions, s \in RawStatuses}
\* The pit stops of the provider: with a duration, an empty one or none.
RawPitStops == {[driverId |-> 1, duration |-> d] : d \in {NoKey, Key(<<>>), Key(<<"2", "3", ".", "1">>)}}
\* The races of the provider, by the text of their round.
RawRaces == {[round |-> <<"1">>], [round |-> <<"2">>]}

\* The documents of each request.
Payloads(op) ==
    NoAnswer \cup
    IF op = "fetch_races"
    THEN {Document(NoKey)} \cup {Document(Key(l)) : l \in ListsOf(RawRaces, MaxRecords)}
    ELSE IF op = "fetch_results"
    THEN {Document(NoKey), Document(Key(<<>>)), Document(Key(<<[Results |-> NoKey]>>))}
             \cup {Document(Key(<<[Results |-> Key(l)]>>)) : l \in ListsOf(RawResults, MaxRecords)}
    ELSE {Document(NoKey), Document(Key(<<>>)), Document(Key(<<[PitStops |-> NoKey]>>))}
             \cup {Document(Key(<<[PitStops |-> Key(l)]>>)) : l \in ListsOf(RawPitStops, MaxRecords)}

\* str.isdigit(): a text of digits, one at least.
isdigit(text) == text # <<>> /\ \A i \in 1..Len(text) : IsDigit(text[i])
Unknown == <<"U", "n", "k", "n", "o", "w", "n">>

\* fetch_races: "for race in data['MRData']['RaceTable']['Races']", the
\* list the loop runs over or the KeyError of the subscript.
races_list(data) ==
    IF data.Races.present THEN Frame(data.Races.v) ELSE Raised("KeyError")
race_record(race) == [round |-> DigitsValue(race.round)]

\* fetch_results: races = ....get('Races', []), "if not races: return
\* pd.DataFrame(results)", then races[0].get('Results', []).
results_list(data) ==
    LET race_list == Get(data.Races, <<>>)
    IN  IF race_list = <<>> THEN <<>> ELSE Get(race_list[1].Results, <<>>)
\* The dict appended for one record r: r['position'] is a subscript.
PositionOf(r) ==
    IF ~r.position.present THEN Raised("KeyError")
    ELSE IF isdigit(r.position.v) THEN Present(DigitsValue(r.position.v))
    ELSE Absent
result_record(r) ==
    IF PositionOf(r) = Raised("KeyError") THEN Raised("KeyError")
    ELSE [driverId |-> r.driverId, position |-> PositionOf(r),
          status |-> Get(r.status, Unknown)]

\* fetch_pit_stops: the same with 'PitStops'; 'duration': ps.get('duration', None).
pit_stops_list(data) ==
    LET race_list == Get(data.Races, <<>>)
    IN  IF race_list = <<>> THEN <<>> ELSE Get(race_list[1].PitStops, <<>>)
DurationOf(ps) == IF ps.duration.present THEN Duration(ps.duration.v) ELSE NoDuration
pit_stop_record(ps) == [driverId |-> ps.driverId, duration |-> DurationOf(ps)]

\* The records the loop of a fetch runs over.
RecordsOf(op, data) ==
    IF op = "fetch_races" THEN data.Races.v
    ELSE IF op = "fetch_results" THEN results_list(data)
    ELSE pit_stops_list(data)
Converted(op, rec) ==
    IF op = "fetch_races" THEN race_record(rec)
    ELSE IF op = "fetch_results" THEN result_record(rec)
    ELSE pit_stop_record(rec)

FetchOps == {"fetch_races", "fetch_results", "fetch_pit_stops"}
FetchEntry ==
    /\ view_op \in FetchOps /\ view_pc = "request"
    /\ view_races = 0 /\ view_round = 1
    /\ view_seen = <<>> /\ view_acc = <<>> /\ view_ret = None

\* response = requests.get(url); data = response.json(); and the way to the
\* loop over the records.  view_seen keeps the answer.
FetchRequest ==
    /\ view_pc = "request"
    /\ \E data \in Payloads(view_op) :
          /\ view_seen' = data
          /\ IF data.tag = "error"
             THEN /\ view_ret' = Raised(data.exc)
                  /\ view_pc' = "returned"
                  /\ view_races' = view_races
             ELSE IF view_op = "fetch_races" /\ races_list(data) = Raised("KeyError")
             THEN /\ view_ret' = Raised("KeyError")
                  /\ view_pc' = "returned"
                  /\ view_races' = view_races
             ELSE IF view_op # "fetch_races" /\ Get(data.Races, <<>>) = <<>>
             THEN /\ view_ret' = Frame(<<>>)
                  /\ view_pc' = "returned"
                  /\ view_races' = view_races
             ELSE /\ view_ret' = view_ret
                  /\ view_pc' = "loop"
                  /\ view_races' = Len(RecordsOf(view_op, data))
    /\ UNCHANGED <<view_op, view_round, view_acc>>

\* One pass of the loop: the record is converted and appended, or the
\* conversion raises.
FetchRecord ==
    /\ view_pc = "loop" /\ view_round <= view_races
    /\ LET row == Converted(view_op, RecordsOf(view_op, view_seen)[view_round])
       IN  IF row = Raised("KeyError")
           THEN /\ view_ret' = row
                /\ view_pc' = "returned"
                /\ UNCHANGED <<view_round, view_acc>>
           ELSE /\ view_acc' = Append(view_acc, row)
                /\ view_round' = view_round + 1
                /\ UNCHANGED <<view_pc, view_ret>>
    /\ UNCHANGED <<view_op, view_races, view_seen>>

\* return pd.DataFrame(results)
FetchReturn ==
    /\ view_pc = "loop" /\ view_round > view_races
    /\ view_ret' = Frame(view_acc)
    /\ view_pc' = "returned"
    /\ UNCHANGED <<view_op, view_races, view_round, view_seen, view_acc>>

(***************************************************************************)
(* Specifications                                                          *)
(***************************************************************************)
ropVars == <<predictor, call, hist>>
quVars == <<qu_pred, q_call, q_hist>>
callerVars == <<program, main_pc, handler>>
vars == <<ropVars, quVars, callerVars, aggVars, viewVars>>

RopInit ==
    /\ \E mt \in ModelTypes, xa \in BOOLEAN, ca \in BOOLEAN :
          predictor = NewPredictor(mt, xa, ca)
    /\ call = NoCall
    /\ hist = NoHist
RopIdle ==
    /\ predictor = NewPredictor("rf", FALSE, FALSE)
    /\ call = NoCall
    /\ hist = NoHist
QuInit ==
    /\ qu_pred = NewQualifyingToRacePredictor
    /\ q_call = QNoCall
    /\ q_hist = QNoHist
CallersIdle ==
    /\ program = "none"
    /\ main_pc = "done"
    /\ handler = NoHandler
AggIdle ==
    /\ agg_op = "none"
    /\ agg_pc = "returned"
    /\ n_years = 0 /\ year = 0 /\ races = 0 /\ round = 0
    /\ qual = NoFrame /\ results = NoFrame
    /\ analysis_results = <<>> /\ X_data = <<>> /\ y_data = <<>>
    /\ agg_ret = None

\* A RaceOutcomePredictor and the calls on it.
Init == RopInit /\ QuInit /\ CallersIdle /\ AggIdle /\ ViewIdle
Next ==
    \/ Predict /\ UNCHANGED <<quVars, callerVars, aggVars, viewVars>>
    \/ Train /\ UNCHANGED <<quVars, callerVars, aggVars, viewVars>>
    \/ GetMetrics /\ UNCHANGED <<quVars, callerVars, aggVars, viewVars>>
    \/ GetFeatureImportance /\ UNCHANGED <<quVars, callerVars, aggVars, viewVars>>
Spec == Init /\ [][Next]_vars

\* A QualifyingToRacePredictor and the calls on it.
InitDelta == RopIdle /\ QuInit /\ CallersIdle /\ AggIdle /\ ViewIdle
NextDelta ==
    \/ QTrain /\ UNCHANGED <<ropVars, callerVars, aggVars, viewVars>>
    \/ QPredict /\ UNCHANGED <<ropVars, callerVars, aggVars, viewVars>>
SpecDelta == InitDelta /\ [][NextDelta]_vars

\* The programs that call train, and direct calls of train on either
\* predictor.
InitCallers ==
    /\ RopIdle /\ QuInit /\ AggIdle /\ ViewIdle
    /\ program \in {"main", "dashboard", "outcome_client", "delta_client"}
    /\ main_pc = "race_outcome"
    /\ handler = NoHandler
NextCallers ==
    \/ MainRaceOutcome /\ UNCHANGED <<aggVars, viewVars>>
    \/ MainQualifying /\ UNCHANGED <<aggVars, viewVars>>
    \/ DashPredictButton /\ UNCHANGED <<aggVars, viewVars>>
    \/ DashQualifyingColumn /\ UNCHANGED <<aggVars, viewVars>>
    \/ program = "outcome_client" /\ Train /\ UNCHANGED <<quVars, callerVars, aggVars, viewVars>>
    \/ program = "delta_client" /\ QTrain /\ UNCHANGED <<ropVars, callerVars, aggVars, viewVars>>
SpecCallers == InitCallers /\ [][NextCallers]_vars

\* One run of a per-race loop over the provider's data.
InitLoops ==
    /\ RopIdle /\ QuInit /\ CallersIdle /\ ViewIdle
    /\ agg_op \in AggOps
    /\ n_years \in 1..MaxYears
    /\ agg_op = "analyze_qualifying_impact" => n_years = 1
    /\ agg_pc = "fetch_races"
    /\ year = 1 /\ races = 0 /\ round = 0
    /\ qual = NoFrame /\ results = NoFrame
    /\ analysis_results = <<>> /\ X_data = <<>> /\ y_data = <<>>
    /\ agg_ret = None
NextLoops ==
    \/ AggFetchRaces /\ UNCHANGED <<ropVars, quVars, callerVars, viewVars>>
    \/ AggFetchRace /\ UNCHANGED <<ropVars, quVars, callerVars, viewVars>>
    \/ AggProcessRace /\ UNCHANGED <<ropVars, quVars, callerVars, viewVars>>
    \/ AggEndOfYear /\ UNCHANGED <<ropVars, quVars, callerVars, viewVars>>
SpecLoops == InitLoops /\ [][NextLoops]_vars

(***************************************************************************)
(* Claims about RaceOutcomePredictor                                       *)
(***************************************************************************)
\* C1: every number predict returns lies in [1, 20]; a raw regression output
\* below 1 comes back as 1 and one above 20 as 20.
C1_PredictionClamped ==
    (call.op = "predict" /\ call.ret # None) =>
        /\ call.ret.tag = "float"
        /\ call.consulted
        /\ MinFinish <= call.ret.v /\ call.ret.v <= MaxFinish
        /\ (call.raw < MinFinish => call.ret.v = MinFinish)
        /\ (call.raw > MaxFinish => call.ret.v = MaxFinish)
C1_Witness ==
    /\ call.op = "predict" /\ call.consulted
    /\ call.raw > MaxFinish /\ call.ret = Float(MaxFinish)

\* C2: as long as no train call has completed, predict returns None whatever
\* its arguments, and leaves the flag, the encoders, the regressor and the
\* diagnostics as they were.
C2_UntrainedPredictNone ==
    [][(call'.op = "predict" /\ ~hist.completed) =>
          (call'.ret = None /\ UNCHANGED predictor)]_vars
\* ... also after a train call that refitted the encoders and then raised.
C2_Witness ==
    /\ ~hist.completed /\ predictor.le_driver.fitted
    /\ call.op = "predict" /\ call.driver \in predictor.le_driver.classes
    /\ call.constructor \in predictor.le_constructor.classes /\ call.ret = None

\* C3: a trained predictor's predict returns None or a number, never raises,
\* and returns a number only when the driver and the constructor are both
\* among the categories of the table of the most recent train call (a call
\* given a table of no examples raises before it reads or assigns anything,
\* and is no such call; one that raises in the fit is).
C3_UnknownCategoryNone ==
    (predictor.is_trained /\ call.op = "predict") =>
        /\ call.ret.tag \in {"None", "float"}
        /\ (call.driver \notin hist.last_X.drivers => call.ret = None)
        /\ (call.constructor \notin hist.last_X.constructors => call.ret = None)
C3_Witness ==
    /\ predictor.is_trained /\ call.op = "predict"
    /\ call.driver = UnseenDriver /\ call.constructor \in hist.last_X.constructors
    /\ call.ret = None

\* C5: after a train call on a table S2 the known drivers and constructors
\* are exactly those of S2, whatever earlier train calls held: predict for a
\* driver the earlier tables held and S2 does not returns None.
C5_EncodersRefit ==
    hist.last_X.fitted =>
        /\ predictor.le_driver.classes = hist.last_X.drivers
        /\ predictor.le_constructor.classes = hist.last_X.constructors
        /\ (call.op = "predict" /\ call.driver \notin hist.last_X.drivers
              => call.ret = None)
C5_Witness ==
    /\ predictor.is_trained /\ hist.last_fit = hist.last_X
    /\ call.op = "predict"
    /\ call.driver \in hist.seen_drivers \ hist.last_X.drivers
    /\ call.constructor \in hist.last_X.constructors
    /\ call.ret = None

\* C6: get_metrics returns {} until a train call has completed and from then
\* on a dict of mae, r2 and model_type, mae and r2 being those stored by the
\* latest completed train call; the predictor is trained exactly from the
\* first completed train call on, and never becomes untrained again.
C6_MetricsOf(ret) ==
    IF ~hist.completed THEN ret = EmptyDict
    ELSE /\ ret.tag = "dict"
         /\ ret.keys = {"mae", "r2", "model_type"}
         /\ ret.val["mae"] = [tag |-> "float", of |-> hist.last_fit]
         /\ ret.val["r2"] = [tag |-> "float", of |-> hist.last_fit]
         /\ ret.val["model_type"] = [tag |-> "str", s |-> predictor.model_type]
C6_Lifecycle ==
    /\ [](call.op = "get_metrics" => C6_MetricsOf(call.ret))
    /\ [](hist.completed <=> predictor.is_trained)
    /\ [][predictor.is_trained => predictor.is_trained']_vars
\* ... with a train call that raised after the latest completed one.
C6_Witness ==
    /\ hist.completed /\ hist.last_X # hist.last_fit
    /\ call.op = "get_metrics" /\ call.ret.keys = {"mae", "r2", "model_type"}

\* C7: get_feature_importance returns {} whenever the predictor is untrained
\* or its regressor is the random forest, whatever model_type string was
\* given; a non-empty result has exactly the three feature keys and comes
\* from a trained boosted-tree regressor.
C7_ImportanceOnlyBoosted ==
    call.op = "get_feature_importance" =>
        /\ (~predictor.is_trained \/ predictor.model.kind = "RandomForestRegressor")
              => call.ret = EmptyDict
        /\ call.ret # EmptyDict =>
              /\ call.ret.keys = Features
              /\ predictor.is_trained
              /\ predictor.model.kind \in {"XGBRegressor", "CatBoostRegressor"}

(***************************************************************************)
(* Claims about QualifyingToRacePredictor                                  *)
(***************************************************************************)
\* The least-squares estimate at x for the examples (X, y), as a fraction:
\* mean(y) + slope * (x - mean(x)), and mean(y) when all X are equal.
OLSAt(X, y, x) ==
    LET n == Len(X)
        Sx == SumSeq(X)
        Sy == SumSeq(y)
        Sxx == SumSeq([i \in 1..n |-> X[i] * X[i]])
        Sxy == SumSeq([i \in 1..n |-> X[i] * y[i]])
        D == n * Sxx - Sx * Sx
    IN  IF D = 0 THEN [num |-> Sy, den |-> n]
        ELSE [num |-> Sy * D + (n * Sxy - Sx * Sy) * (n * x - Sx), den |-> n * D]

\* C4: predict returns exactly 0 as long as no train call has completed, and
\* after one the least-squares estimate of the latest completed train call's
\* examples, unclamped.
C4_DeltaPredict ==
    q_call.op = "predict" =>
        IF ~q_hist.completed THEN q_call.ret = PyInt(0)
        ELSE /\ q_call.ret.tag = "float"
             /\ LET e == OLSAt(q_hist.X, q_hist.y, q_call.x)
                IN  q_call.ret.num * e.den = e.num * q_call.ret.den
\* ... a trained predictor returning a negative estimate.
C4_Witness ==
    /\ q_hist.completed /\ q_call.op = "predict"
    /\ q_call.ret.tag = "float" /\ q_call.ret.num < 0

(***************************************************************************)
(* Claims about the callers                                                *)
(***************************************************************************)
OutcomeHandlers == {"main_race_outcome", "dash_predict"}
DeltaHandlers == {"main_qualifying", "dash_qualifying"}

\* C8: train checks no number of examples (a direct call with one example or
\* more, and as many targets, completes), and main.py and the dashboard call
\* train of either predictor exactly when the prepared data set has more
\* than 10 examples; with 10 or fewer the predictor stays untrained and the
\* insufficient-data message is shown.
\* (No examples at all make train raise, in the column lookup or in the
\* library's fit, which is no check of a number by train.)
C8_ThresholdInCallers ==
    /\ handler.name \in OutcomeHandlers \cup DeltaHandlers =>
          /\ handler.train_invoked <=> handler.n > 10
          /\ handler.n <= 10 =>
                /\ handler.shown = "insufficient"
                /\ handler.name \in OutcomeHandlers => ~predictor.is_trained
                /\ handler.name \in DeltaHandlers => ~qu_pred.is_trained
    /\ (program = "outcome_client" /\ call.op = "train"
          /\ call.n >= 1 /\ call.ny = call.n)
          => (call.ret = None /\ predictor.is_trained)
    /\ (program = "delta_client" /\ q_call.op = "train"
          /\ q_call.n >= 1 /\ q_call.ny = q_call.n)
          => (q_call.ret = None /\ qu_pred.is_trained)
\* ... main.py holding exactly 10 examples for the finish predictor.
C8_Witness ==
    /\ handler.name = "main_race_outcome" /\ handler.n = 10
    /\ ~handler.train_invoked /\ handler.shown = "insufficient"
    /\ ~predictor.is_trained

(***************************************************************************)
(* Claims about the per-race loops                                         *)
(***************************************************************************)
\* The (qualifying, result) pairs of a race: for each qualifying entry, in
\* grid order, the results of the same driver that have a finish position.
RECURSIVE JoinedPairs(_, _)
JoinedPairs(qrows, rrows) ==
    IF qrows = <<>> THEN <<>>
    ELSE LET e == Head(qrows)
             m == SelectSeq(rrows, LAMBDA r : r.driverId = e.driverId /\ r.position.present)
         IN  [i \in 1..Len(m) |->
                [driver |-> e.driverId, constructor |-> e.constructor,
                 grid |-> e.position.v, finish |-> m[i].position.v]]
                \o JoinedPairs(Tail(qrows), rrows)
PairsOf(q, res) ==
    IF q.ok /\ res.ok /\ q.rows # <<>> /\ res.rows # <<>>
    THEN JoinedPairs(q.rows, res.rows) ELSE <<>>

\* C9: analyze_qualifying_impact gains exactly one row for a race whose
\* qualifying and results were both fetched non-empty and join to at least 4
\* pairs with a finish position, its samples the number of pairs and its
\* correlation that of grid and finish position; it gains none for a race
\* with 3 pairs or fewer.
C9_Rows(r, q, res) ==
    LET p == PairsOf(q, res)
    IN  IF Len(p) >= 4
        THEN <<[round |-> r,
                correlation |-> Spearmanr([i \in 1..Len(p) |-> p[i].grid],
                                          [i \in 1..Len(p) |-> p[i].finish]),
                samples |-> Len(p)]>>
        ELSE <<>>
C9_OneRowPerRace ==
    [][(agg_op = "analyze_qualifying_impact" /\ agg_pc = "fetched") =>
          analysis_results' = analysis_results \o C9_Rows(round, qual, results)]_vars

\* C10: for every pair of a race, prepare_training_data gains one example
\* (grid position, driver id, constructor) with the finish position as its
\* target, and prepare_data one example (grid position) with finish minus
\* grid position as its target; nothing else is gained.
C10_X(q, res) ==
    LET p == PairsOf(q, res)
    IN  [i \in 1..Len(p) |-> [grid_position |-> p[i].grid, driver |-> p[i].driver,
                              constructor |-> p[i].constructor]]
C10_y(q, res) ==
    LET p == PairsOf(q, res) IN [i \in 1..Len(p) |-> p[i].finish]
C10_DeltaX(q, res) ==
    LET p == PairsOf(q, res) IN [i \in 1..Len(p) |-> <<p[i].grid>>]
C10_Deltay(q, res) ==
    LET p == PairsOf(q, res) IN [i \in 1..Len(p) |-> p[i].finish - p[i].grid]
C10_OneExamplePerPair ==
    [][/\ (agg_op = "prepare_training_data" /\ agg_pc = "fetched") =>
            /\ X_data' = X_data \o C10_X(qual, results)
            /\ y_data' = y_data \o C10_y(qual, results)
       /\ (agg_op = "prepare_data" /\ agg_pc = "fetched") =>
            /\ X_data' = X_data \o C10_DeltaX(qual, results)
            /\ y_data' = y_data \o C10_Deltay(qual, results)]_vars

(***************************************************************************)
(* Specifications of the views                                             *)
(***************************************************************************)
\* The predictors, their callers and the per-race loops at rest.
ModelsIdle == RopIdle /\ QuInit /\ CallersIdle /\ AggIdle

\* calculate_driver_consistency(year)
InitConsistency == ModelsIdle /\ ViewEntry("calculate_driver_consistency")
NextConsistency ==
    \/ ViewFetchRaces /\ UNCHANGED <<ropVars, quVars, callerVars, aggVars>>
    \/ ConsistencyRace /\ UNCHANGED <<ropVars, quVars, callerVars, aggVars>>
    \/ ConsistencyReturn /\ UNCHANGED <<ropVars, quVars, callerVars, aggVars>>
SpecConsistency == InitConsistency /\ [][NextConsistency]_vars

\* analyze_teammate_performance(year)
InitTeammates == ModelsIdle /\ ViewEntry("analyze_teammate_performance")
NextTeammates ==
    \/ ViewFetchRaces /\ UNCHANGED <<ropVars, quVars, callerVars, aggVars>>
    \/ TeammateRace /\ UNCHANGED <<ropVars, quVars, callerVars, aggVars>>
    \/ TeammateReturn /\ UNCHANGED <<ropVars, quVars, callerVars, aggVars>>
SpecTeammates == InitTeammates /\ [][NextTeammates]_vars

\* analyze_pit_stop_performance(year)
InitPit == ModelsIdle /\ ViewEntry("analyze_pit_stop_performance")
NextPit ==
    \/ ViewFetchRaces /\ UNCHANGED <<ropVars, quVars, callerVars, aggVars>>
    \/ PitRace /\ UNCHANGED <<ropVars, quVars, callerVars, aggVars>>
    \/ PitReturn /\ UNCHANGED <<ropVars, quVars, callerVars, aggVars>>
SpecPit == InitPit /\ [][NextPit]_vars

\* analyze_team_performance(year)
InitTeams == ModelsIdle /\ TeamEntry
NextTeams ==
    \/ TeamFetchStandings /\ UNCHANGED <<ropVars, quVars, callerVars, aggVars>>
    \/ ViewFetchRaces /\ UNCHANGED <<ropVars, quVars, callerVars, aggVars>>
    \/ TeamRace /\ UNCHANGED <<ropVars, quVars, callerVars, aggVars>>
    \/ TeamReturn /\ UNCHANGED <<ropVars, quVars, callerVars, aggVars>>
SpecTeams == InitTeams /\ [][NextTeams]_vars

\* analyze_constructor_dominance_trend(start_year, end_year)
InitTrend == ModelsIdle /\ RangeEntry("analyze_constructor_dominance_trend")
NextTrend ==
    \/ TrendYear /\ UNCHANGED <<ropVars, quVars, callerVars, aggVars>>
    \/ TrendReturn /\ UNCHANGED <<ropVars, quVars, callerVars, aggVars>>
SpecTrend == InitTrend /\ [][NextTrend]_vars

\* calculate_driver_career_trajectory(start_year, end_year, driver_id)
InitCareer == ModelsIdle /\ RangeEntry("calculate_driver_career_trajectory")
NextCareer ==
    \/ CareerYear /\ UNCHANGED <<ropVars, quVars, callerVars, aggVars>>
    \/ CareerReturn /\ UNCHANGED <<ropVars, quVars, callerVars, aggVars>>
SpecCareer == InitCareer /\ [][NextCareer]_vars

\* analyze_track_suitability(start_year, end_year, driver_id)
InitTrack == ModelsIdle /\ RangeEntry("analyze_track_suitability")
NextTrack ==
    \/ TrackYear /\ UNCHANGED <<ropVars, quVars, callerVars, aggVars>>
    \/ TrackReturn /\ UNCHANGED <<ropVars, quVars, callerVars, aggVars>>
SpecTrack == InitTrack /\ [][NextTrack]_vars


\* fetch_races(year), fetch_results(year, round_num), fetch_pit_stops(year, round_num)
InitFetch == ModelsIdle /\ FetchEntry
NextFetch ==
    \/ FetchRequest /\ UNCHANGED <<ropVars, quVars, callerVars, aggVars>>
    \/ FetchRecord /\ UNCHANGED <<ropVars, quVars, callerVars, aggVars>>
    \/ FetchReturn /\ UNCHANGED <<ropVars, quVars, callerVars, aggVars>>
SpecFetch == InitFetch /\ [][NextFetch]_vars
(***************************************************************************)
(* Claims about calculate_driver_consistency                               *)
(***************************************************************************)
\* The result rows of the races fetched so far, in the order fetched.
RECURSIVE RowsOfFrames(_)
RowsOfFrames(frames) ==
    IF frames = <<>> THEN <<>>
    ELSE (IF Head(frames).ok THEN Head(frames).rows ELSE <<>>) \o RowsOfFrames(Tail(frames))
SeenRows == RowsOfFrames(view_seen)
SeenOf(d) == SelectSeq(SeenRows, LAMBDA r : r.driverId = d)
FinishesOf(d) == SelectSeq(SeenOf(d), LAMBDA r : r.position.present)
ConsistencyReturned ==
    /\ view_op = "calculate_driver_consistency" /\ view_pc = "returned"
    /\ view_ret.tag = "frame"

\* C11: the rows calculate_driver_consistency returns are in non-decreasing
\* order of avgPosition, every completion_rate is between 0 and 1, and
\* stdPosition is 0 for a driver with exactly one recorded finish position.
C11_ConsistencySorted ==
    ConsistencyReturned =>
        LET r == view_ret.rows
        IN  /\ \A i \in 1..(Len(r) - 1) :
                  r[i].avgPosition.num * r[i + 1].avgPosition.den
                      <= r[i + 1].avgPosition.num * r[i].avgPosition.den
            /\ \A i \in 1..Len(r) :
                  /\ 0 <= r[i].completion_rate.num
                  /\ r[i].completion_rate.num <= r[i].completion_rate.den
                  /\ Len(FinishesOf(r[i].driverId)) = 1 => r[i].stdPosition = PyInt(0)
\* ... where the driver seen first has the worse mean, and one driver has a
\* single finish.
C11_Witness ==
    /\ ConsistencyReturned /\ Len(view_ret.rows) = 2
    /\ view_acc[1].driverId = view_ret.rows[2].driverId
    /\ view_ret.rows[1].avgPosition # view_ret.rows[2].avgPosition
    /\ Len(FinishesOf(view_ret.rows[1].driverId)) = 1

\* C12: in every row, races_completed counts the driver's results with a
\* finish position and races_dnf those without, races_started is their sum,
\* completion_rate is completed / started, totalPoints sums the points of all
\* the driver's results, pointsPerRace is totalPoints / started, podiums
\* counts the finish positions <= 3, and the mean is over the finish
\* positions alone.
C12_ConsistencyCounts ==
    ConsistencyReturned =>
        \A i \in 1..Len(view_ret.rows) :
            LET r == view_ret.rows[i]
                all == SeenOf(r.driverId)
                fin == FinishesOf(r.driverId)
            IN  /\ r.races_completed = Len(fin)
                /\ r.races_dnf = Len(all) - Len(fin)
                /\ r.races_started = r.races_completed + r.races_dnf
                /\ r.completion_rate.num * r.races_started
                      = r.races_completed * r.completion_rate.den
                /\ r.totalPoints = SumSeq([k \in 1..Len(all) |-> all[k].points])
                /\ r.pointsPerRace.num * r.races_started
                      = r.totalPoints * r.pointsPerRace.den
                /\ r.podiums = Cardinality({k \in 1..Len(fin) : fin[k].position.v <= 3})
                /\ r.avgPosition.num * Len(fin)
                      = SumSeq([k \in 1..Len(fin) |-> fin[k].position.v]) * r.avgPosition.den
\* ... a driver with a finish and a race without one.
C12_Witness ==
    /\ ConsistencyReturned
    /\ \E i \in 1..Len(view_ret.rows) :
          /\ view_ret.rows[i].races_dnf = 1 /\ view_ret.rows[i].races_completed = 1
          /\ view_ret.rows[i].podiums = 0

\* C13: calculate_driver_consistency returns one row for each driver with a
\* finish position in the results fetched, and no other row: as many rows as
\* such drivers, none when there is none.
C13_OneRowPerClassifiedDriver ==
    (view_op = "calculate_driver_consistency" /\ view_pc = "returned"
        /\ view_ret # Raised("fetch_races")) =>
        /\ view_ret.tag = "frame"
        /\ {view_ret.rows[i].driverId : i \in 1..Len(view_ret.rows)}
              = {SeenRows[k].driverId : k \in {j \in 1..Len(SeenRows) :
                                                  SeenRows[j].position.present}}
        /\ \A i, j \in 1..Len(view_ret.rows) :
              view_ret.rows[i].driverId = view_ret.rows[j].driverId => i = j
\* The same of every table returned: the rows are those drivers'.
C13_RowsWhenReturned ==
    ConsistencyReturned =>
        /\ {view_ret.rows[i].driverId : i \in 1..Len(view_ret.rows)}
              = {SeenRows[k].driverId : k \in {j \in 1..Len(SeenRows) :
                                                  SeenRows[j].position.present}}
        /\ \A i, j \in 1..Len(view_ret.rows) :
              view_ret.rows[i].driverId = view_ret.rows[j].driverId => i = j

(***************************************************************************)
(* Claims about analyze_teammate_performance                               *)
(***************************************************************************)
TeammatesReturned ==
    /\ view_op = "analyze_teammate_performance" /\ view_pc = "returned"
    /\ view_ret.tag = "frame"
\* The result rows of a constructor, and of one of its drivers by name.
SeenFor(c) == SelectSeq(SeenRows, LAMBDA r : r.constructor = c)
DriversFor(c) == {SeenFor(c)[k].driverId : k \in 1..Len(SeenFor(c))}
SeenForNamed(c, name) == SelectSeq(SeenFor(c), LAMBDA r : r.driverName = name)

\* C14: a row of analyze_teammate_performance is of a constructor for which
\* exactly two distinct driver ids appear in the results fetched, each with
\* at least one race counted (a result with a finish position); a
\* constructor with one, three or more drivers, a driver seen only without a
\* finish position included, has no row, and no constructor has two rows.
C14_ExactlyTwoDrivers ==
    TeammatesReturned =>
        LET r == view_ret.rows
        IN  /\ \A i \in 1..Len(r) :
                  /\ Cardinality(DriversFor(r[i].constructor)) = 2
                  /\ r[i].driver1_races >= 1 /\ r[i].driver2_races >= 1
                  /\ \A d \in DriversFor(r[i].constructor) :
                        \E k \in 1..Len(SeenFor(r[i].constructor)) :
                            /\ SeenFor(r[i].constructor)[k].driverId = d
                            /\ SeenFor(r[i].constructor)[k].position.present
            /\ \A i, j \in 1..Len(r) : r[i].constructor = r[j].constructor => i = j
\* ... a season with a row for "M", one of whose two drivers has a result
\* without a finish position too.
C14_Witness ==
    /\ TeammatesReturned
    /\ \E i \in 1..Len(view_ret.rows) :
          /\ view_ret.rows[i].constructor = "M"
          /\ view_ret.rows[i].driver1_races < Len(SeenForNamed("M", view_ret.rows[i].driver1))
\* ... and a season where three drivers are seen for "M", one of them only
\* without a finish position, and "M" has no row.
C14_ThreeDriversNoRow ==
    /\ TeammatesReturned
    /\ Cardinality(DriversFor("M")) = 3
    /\ \E d \in DriversFor("M") :
          \A k \in 1..Len(SeenFor("M")) :
              SeenFor("M")[k].driverId = d => ~SeenFor("M")[k].position.present
    /\ \A i \in 1..Len(view_ret.rows) : view_ret.rows[i].constructor # "M"

\* C15: in every row, driverN_races is the number of result rows of that
\* driver for the constructor, those without a finish position included,
\* and driverN_points the sum of the points of those rows.
C15_RacesStarted ==
    TeammatesReturned =>
        \A i \in 1..Len(view_ret.rows) :
            LET r == view_ret.rows[i]
                one == SeenForNamed(r.constructor, r.driver1)
                two == SeenForNamed(r.constructor, r.driver2)
            IN  /\ r.driver1_races = Len(one)
                /\ r.driver2_races = Len(two)
                /\ r.driver1_points = SumSeq([k \in 1..Len(one) |-> one[k].points])
                /\ r.driver2_points = SumSeq([k \in 1..Len(two) |-> two[k].points])
\* What holds: the points are those of every result row, the races those of
\* the rows with a finish position.
C15_RacesFinished ==
    TeammatesReturned =>
        \A i \in 1..Len(view_ret.rows) :
            LET r == view_ret.rows[i]
                one == SeenForNamed(r.constructor, r.driver1)
                two == SeenForNamed(r.constructor, r.driver2)
            IN  /\ r.driver1_races = Len(SelectSeq(one, LAMBDA x : x.position.present))
                /\ r.driver2_races = Len(SelectSeq(two, LAMBDA x : x.position.present))
                /\ r.driver1_points = SumSeq([k \in 1..Len(one) |-> one[k].points])
                /\ r.driver2_points = SumSeq([k \in 1..Len(two) |-> two[k].points])

(***************************************************************************)
(* Claims about analyze_pit_stop_performance                               *)
(***************************************************************************)
PitReturned ==
    /\ view_op = "analyze_pit_stop_performance" /\ view_pc = "returned"
    /\ view_ret.tag = "frame"
\* The stops of the races for which pit-stop data was returned, and those of
\* the races for which results were returned too, in the order fetched.
RECURSIVE StopsOfRaces(_, _)
StopsOfRaces(seen, withResults) ==
    IF seen = <<>> THEN <<>>
    ELSE (IF /\ Head(seen).pit_stops.ok
             /\ withResults => (Head(seen).results.ok /\ Head(seen).results.rows # <<>>)
          THEN Head(seen).pit_stops.rows ELSE <<>>)
         \o StopsOfRaces(Tail(seen), withResults)
StopsReturned(d) == SelectSeq(StopsOfRaces(view_seen, FALSE), LAMBDA ps : ps.driverId = d)
StopsWithResults(d) == SelectSeq(StopsOfRaces(view_seen, TRUE), LAMBDA ps : ps.driverId = d)
HasSeconds(ps) == Truthy(ps.duration) /\ Parseable(ps.duration.v)
SecondsOf(stops) ==
    LET timed == SelectSeq(stops, HasSeconds)
    IN  [k \in 1..Len(timed) |-> ParseFloat(timed[k].duration.v)]

\* C16: no row of analyze_pit_stop_performance is of a driver none of whose
\* stops has a parseable duration; in every row min_stop_duration <=
\* avg_stop_duration <= max_stop_duration, the three computed over the
\* parseable durations alone; the rows are in non-decreasing order of
\* avg_stop_duration.
C16_PitStopRows ==
    PitReturned =>
        LET r == view_ret.rows
        IN  /\ \A i \in 1..Len(r) :
                LET seconds == SecondsOf(StopsWithResults(r[i].driverId))
                IN  /\ seconds # <<>>
                    /\ r[i].min_stop_duration = Float64Min(seconds)
                    /\ r[i].max_stop_duration = Float64Max(seconds)
                    /\ r[i].avg_stop_duration = Float64Mean(seconds)
                    /\ Float64Leq(r[i].min_stop_duration, r[i].avg_stop_duration)
                    /\ Float64Leq(r[i].avg_stop_duration, r[i].max_stop_duration)
            /\ \A i \in 1..(Len(r) - 1) :
                  Float64Leq(r[i].avg_stop_duration, r[i + 1].avg_stop_duration)
\* What holds: all of it but the place of the mean between the two.
C16_ExceptMeanWithin ==
    PitReturned =>
        LET r == view_ret.rows
        IN  /\ \A i \in 1..Len(r) :
                LET seconds == SecondsOf(StopsWithResults(r[i].driverId))
                IN  /\ seconds # <<>>
                    /\ r[i].min_stop_duration = Float64Min(seconds)
                    /\ r[i].max_stop_duration = Float64Max(seconds)
                    /\ r[i].avg_stop_duration = Float64Mean(seconds)
                    /\ Float64Leq(r[i].min_stop_duration, r[i].max_stop_duration)
            /\ \A i \in 1..(Len(r) - 1) :
                  Float64Leq(r[i].avg_stop_duration, r[i + 1].avg_stop_duration)
\* The mean of three stops of 10.7 s each, below the least of them.
C16_MeanBelowMin ==
    /\ PitReturned
    /\ \E i \in 1..Len(view_ret.rows) :
          /\ Len(SecondsOf(StopsWithResults(view_ret.rows[i].driverId))) = 3
          /\ Float64Less(view_ret.rows[i].avg_stop_duration,
                         view_ret.rows[i].min_stop_duration)

\* C17 as stated: total_stops of every row is the number of the driver's
\* stops in all the races for which pit-stop data was returned.
C17_StopsOfEveryRace ==
    PitReturned =>
        \A i \in 1..Len(view_ret.rows) :
            view_ret.rows[i].total_stops = Len(StopsReturned(view_ret.rows[i].driverId))
\* C17: total_stops of every row is the number of the driver's stops in the
\* races for which pit-stop data and results were both returned, neither of
\* them empty, the stops with a missing or unparseable duration included;
\* such stops are left out of the durations only.
C17_StopsCounted ==
    PitReturned =>
        \A i \in 1..Len(view_ret.rows) :
            LET stops == StopsWithResults(view_ret.rows[i].driverId)
                k == KeyIndex(view_acc, "driverId", view_ret.rows[i].driverId)
            IN  /\ view_ret.rows[i].total_stops = Len(stops)
                /\ view_acc[k].stop_durations = SecondsOf(stops)
\* ... a driver with a stop without seconds, and stops of a race whose
\* results were empty or failed.
C17_Witness ==
    /\ PitReturned
    /\ \E i \in 1..Len(view_ret.rows) :
          LET d == view_ret.rows[i].driverId
          IN  /\ \E k \in 1..Len(StopsWithResults(d)) : ~HasSeconds(StopsWithResults(d)[k])
              /\ view_ret.rows[i].total_stops = 2
              /\ Len(StopsReturned(d)) > Len(StopsWithResults(d))

(***************************************************************************)
(* Claims about analyze_team_performance                                   *)
(***************************************************************************)
TeamsReturned ==
    /\ view_op = "analyze_team_performance" /\ view_pc = "returned"
    /\ view_ret.tag = "frame"
\* The rows are those of the constructors in the results, one each, with
\* the wins, podiums, mean position and points of the constructor's results,
\* in non-increasing order of totalPoints.
TeamRowsAsClaimed(r) ==
    /\ {r[i].constructor : i \in 1..Len(r)}
          = {SeenRows[k].constructor : k \in 1..Len(SeenRows)}
    /\ \A i, j \in 1..Len(r) : r[i].constructor = r[j].constructor => i = j
    /\ \A i \in 1..Len(r) :
          LET all == SeenFor(r[i].constructor)
              fin == SelectSeq(all, LAMBDA x : x.position.present)
          IN  /\ r[i].totalWins = Cardinality({k \in 1..Len(fin) : fin[k].position.v = 1})
              /\ r[i].podiums = Cardinality({k \in 1..Len(fin) : fin[k].position.v <= 3})
              /\ r[i].races_participated = Len(fin)
              /\ r[i].totalPoints = SumSeq([k \in 1..Len(all) |-> all[k].points])
              /\ IF fin = <<>> THEN r[i].avgPosition = None
                 ELSE r[i].avgPosition.num * Len(fin)
                        = SumSeq([k \in 1..Len(fin) |-> fin[k].position.v])
                              * r[i].avgPosition.den
              /\ r[i].totalWins <= r[i].podiums
              /\ r[i].podiums <= r[i].races_participated
    /\ \A i \in 1..(Len(r) - 1) : r[i].totalPoints >= r[i + 1].totalPoints

\* C18: analyze_team_performance returns one row per constructor appearing
\* in the results of the season (none when there is none), with totalWins,
\* podiums, avgPosition and totalPoints as above, in non-increasing order of
\* totalPoints, and totalWins <= podiums <= races_participated.
C18_TeamRows ==
    (/\ view_op = "analyze_team_performance" /\ view_pc = "returned"
     /\ view_ret # Raised("fetch_season_standings")
     /\ view_ret # Raised("fetch_races")) =>
        view_ret.tag = "frame" /\ TeamRowsAsClaimed(view_ret.rows)
\* The same of every table returned.
C18_RowsWhenReturned == TeamsReturned => TeamRowsAsClaimed(view_ret.rows)
\* ... two constructors, the one seen first with fewer points, one with a
\* result without a finish position.
C18_TwoTeams ==
    /\ TeamsReturned /\ Len(view_ret.rows) = 2
    /\ view_acc[1].constructor = view_ret.rows[2].constructor
    /\ view_ret.rows[1].totalPoints > view_ret.rows[2].totalPoints
    /\ \E i \in 1..2 : view_ret.rows[i].races_participated
                          < Len(SeenFor(view_ret.rows[i].constructor))

(***************************************************************************)
(* Claims about analyze_constructor_dominance_trend                        *)
(***************************************************************************)
TrendReturned ==
    /\ view_op = "analyze_constructor_dominance_trend" /\ view_pc = "returned"
    /\ view_ret.tag = "frame"
\* The standings fetched for a year of the range, if any were.
StandingsFetched(yr) ==
    {view_seen[i].standings : i \in {j \in 1..Len(view_seen) :
        view_seen[j].year = yr /\ view_seen[j].standings.ok}}
RowsOfConstructor(c) == SelectSeq(view_ret.rows, LAMBDA r : r.constructor = c)

\* C19: analyze_constructor_dominance_trend consults every year of
\* start..end and returns exactly one row per year and constructor of the
\* standings fetched, with the points, wins and rank of that year alone, in
\* ascending order of the years; a constructor in the standings of all k
\* years has k rows.
C19_OneRowPerYearAndConstructor ==
    TrendReturned =>
        LET r == view_ret.rows
            years == StartYear..view_races
        IN  /\ {view_seen[i].year : i \in 1..Len(view_seen)} = years
            /\ Len(view_seen) = Cardinality(years)
            /\ \A y \in years : \A s \in StandingsFetched(y) :
                  \A k \in 1..Len(s.rows) :
                      /\ Cardinality({i \in 1..Len(r) :
                            r[i].year = y /\ r[i].constructor = s.rows[k].constructor}) = 1
                      /\ \E i \in 1..Len(r) :
                            /\ r[i].year = y /\ r[i].constructor = s.rows[k].constructor
                            /\ r[i].points = s.rows[k].points
                            /\ r[i].wins = s.rows[k].wins
                            /\ r[i].position = s.rows[k].position
            /\ \A i \in 1..Len(r) :
                  /\ r[i].year \in years
                  /\ \E s \in StandingsFetched(r[i].year) :
                        \E k \in 1..Len(s.rows) : s.rows[k].constructor = r[i].constructor
            /\ \A i \in 1..(Len(r) - 1) : r[i].year <= r[i + 1].year
            /\ \A c \in {"M", "F"} :
                  (\A y \in years : \E s \in StandingsFetched(y) :
                        \E k \in 1..Len(s.rows) : s.rows[k].constructor = c)
                      => Len(RowsOfConstructor(c)) = Cardinality(years)
\* ... a range of two years with "M" in the standings of both, with points
\* that differ.
C19_Witness ==
    /\ TrendReturned /\ view_races = StartYear + 1
    /\ Len(RowsOfConstructor("M")) = 2
    /\ RowsOfConstructor("M")[1].points # RowsOfConstructor("M")[2].points
    /\ RowsOfConstructor("M")[1].position # RowsOfConstructor("M")[2].position
    /\ Len(RowsOfConstructor("F")) = 1

(***************************************************************************)
(* Claims about calculate_driver_career_trajectory                         *)
(***************************************************************************)
CareerReturned ==
    /\ view_op = "calculate_driver_career_trajectory" /\ view_pc = "returned"
    /\ view_ret.tag = "frame"
\* Whether the driver standings fetched for the i-th year hold the driver.
InStandings(i) ==
    /\ view_seen[i].standings.ok
    /\ \E k \in 1..Len(view_seen[i].standings.rows) :
          view_seen[i].standings.rows[k].driverId = TheDriver
\* The finish positions of the driver in the results fetched for the races
\* of the i-th year.
RECURSIVE FinishesIn(_)
FinishesIn(season) ==
    IF season = <<>> THEN <<>>
    ELSE LET own == IF Head(season).ok
                    THEN SelectSeq(Head(season).rows,
                            LAMBDA x : x.driverId = TheDriver /\ x.position.present)
                    ELSE <<>>
         IN  (IF own = <<>> THEN <<>> ELSE <<own[1].position.v>>)
                 \o FinishesIn(Tail(season))
\* The rows are of years of the range, strictly ascending, each with the
\* mean position and the count of the finishes of the driver in the races
\* of its year.
CareerRowsRecomputed(r) ==
    /\ \A i \in 1..Len(r) : r[i].year \in StartYear..view_races
    /\ \A i \in 1..(Len(r) - 1) : r[i].year < r[i + 1].year
    /\ \A i \in 1..Len(r) :
          LET fin == FinishesIn(view_seen[r[i].year - StartYear + 1].races.rows)
          IN  /\ r[i].races_completed = Len(fin)
              /\ IF fin = <<>> THEN r[i].avgPosition = None
                 ELSE r[i].avgPosition.num * Len(fin) = SumSeq(fin) * r[i].avgPosition.den

\* C20: calculate_driver_career_trajectory returns at most one row per year
\* of start..end, in strictly ascending order of the years, a row for
\* exactly the years whose driver standings hold the driver, with
\* avgPosition and races_completed recomputed from the results of the races
\* of that year.
C20_RowForEveryYearInStandings ==
    CareerReturned =>
        /\ CareerRowsRecomputed(view_ret.rows)
        /\ \A i \in 1..Len(view_seen) :
              InStandings(i) <=>
                  \E k \in 1..Len(view_ret.rows) : view_ret.rows[k].year = view_seen[i].year
\* What holds: a row for exactly the years whose standings hold the driver
\* and whose list of races was fetched.
C20_RowForYearsWithRaces ==
    CareerReturned =>
        /\ CareerRowsRecomputed(view_ret.rows)
        /\ \A i \in 1..Len(view_seen) :
              (InStandings(i) /\ view_seen[i].races.ok) <=>
                  \E k \in 1..Len(view_ret.rows) : view_ret.rows[k].year = view_seen[i].year
\* ... the first of two years left out for its list of races, and a mean
\* position in the second that is not the rank of the standings.
C20_YearLeftOut ==
    /\ CareerReturned /\ Len(view_seen) = 2
    /\ InStandings(1) /\ ~view_seen[1].races.ok
    /\ Len(view_ret.rows) = 1 /\ view_ret.rows[1].year = StartYear + 1
    /\ view_ret.rows[1].races_completed = 2
    /\ view_ret.rows[1].avgPosition # Frac(view_ret.rows[1].position, 1)

(***************************************************************************)
(* Claims about analyze_track_suitability                                  *)
(***************************************************************************)
TrackReturned ==
    /\ view_op = "analyze_track_suitability" /\ view_pc = "returned"
    /\ view_ret.tag = "frame"
\* The rows of the driver in the results fetched for the races at a circuit,
\* over the years of the range, in the order fetched.
RECURSIVE DriverRowsAt(_, _)
DriverRowsAt(season, c) ==
    IF season = <<>> THEN <<>>
    ELSE LET own == IF Head(season).circuit = c /\ Head(season).results.ok
                    THEN SelectSeq(Head(season).results.rows,
                                   LAMBDA x : x.driverId = TheDriver)
                    ELSE <<>>
         IN  (IF own = <<>> THEN <<>> ELSE <<own[1]>>) \o DriverRowsAt(Tail(season), c)
RECURSIVE RacesOfYears(_)
RacesOfYears(seen) ==
    IF seen = <<>> THEN <<>>
    ELSE (IF Head(seen).races.ok THEN Head(seen).races.rows ELSE <<>>)
             \o RacesOfYears(Tail(seen))
RanAt(c) == DriverRowsAt(RacesOfYears(view_seen), c)
FinishedAt(c) == SelectSeq(RanAt(c), LAMBDA x : x.position.present)
\* The rows are those of the circuits with a finish position of the driver,
\* one each, with the mean of the finish positions and the points of all
\* the driver's results there, in non-decreasing order of avgPosition.
TrackRowsOfCircuits(r) ==
    /\ {r[i].circuit : i \in 1..Len(r)} = {c \in {"Monza", "Spa"} : FinishedAt(c) # <<>>}
    /\ \A i, j \in 1..Len(r) : r[i].circuit = r[j].circuit => i = j
    /\ \A i \in 1..Len(r) :
          LET fin == FinishedAt(r[i].circuit)
              ran == RanAt(r[i].circuit)
          IN  /\ r[i].avgPosition.num * Len(fin)
                    = SumSeq([k \in 1..Len(fin) |-> fin[k].position.v]) * r[i].avgPosition.den
              /\ r[i].totalPoints = SumSeq([k \in 1..Len(ran) |-> ran[k].points])
    /\ \A i \in 1..(Len(r) - 1) :
          r[i].avgPosition.num * r[i + 1].avgPosition.den
              <= r[i + 1].avgPosition.num * r[i].avgPosition.den

\* C21: analyze_track_suitability returns one row per circuit at which the
\* driver has a finish position in the range (none when there is none),
\* with avgPosition the mean of the finish positions, totalPoints the points
\* of the driver's results at the circuit, pointsPerRace = totalPoints
\* divided by the number of races the driver ran there, in non-decreasing
\* order of avgPosition.
C21_TrackRows ==
    (view_op = "analyze_track_suitability" /\ view_pc = "returned") =>
        /\ view_ret.tag = "frame"
        /\ TrackRowsOfCircuits(view_ret.rows)
        /\ \A i \in 1..Len(view_ret.rows) :
              view_ret.rows[i].pointsPerRace.num * Len(RanAt(view_ret.rows[i].circuit))
                  = view_ret.rows[i].totalPoints * view_ret.rows[i].pointsPerRace.den
\* What holds of every table returned: the rows are as claimed, with
\* pointsPerRace the points of all the driver's results at the circuit
\* divided by the number of those with a finish position.
C21_RowsWhenReturned ==
    TrackReturned =>
        /\ TrackRowsOfCircuits(view_ret.rows)
        /\ \A i \in 1..Len(view_ret.rows) :
              /\ view_ret.rows[i].races = Len(FinishedAt(view_ret.rows[i].circuit))
              /\ view_ret.rows[i].pointsPerRace.num * view_ret.rows[i].races
                    = view_ret.rows[i].totalPoints * view_ret.rows[i].pointsPerRace.den
\* ... two circuits, the one seen first with the worse mean, and at one of
\* them a result without a finish position beside one with.
C21_TwoCircuits ==
    /\ TrackReturned /\ Len(view_ret.rows) = 2
    /\ view_acc[1].circuit = view_ret.rows[2].circuit
    /\ view_ret.rows[1].avgPosition # view_ret.rows[2].avgPosition
    /\ \E i \in 1..2 : Len(RanAt(view_ret.rows[i].circuit)) > view_ret.rows[i].races
\* A table is returned whose pointsPerRace is not the points per race run.
C21_PointsPerFinish ==
    /\ TrackReturned
    /\ \E i \in 1..Len(view_ret.rows) :
          view_ret.rows[i].pointsPerRace.num * Len(RanAt(view_ret.rows[i].circuit))
              # view_ret.rows[i].totalPoints * view_ret.rows[i].pointsPerRace.den

(***************************************************************************)
(* Claims about failures of the fetches                                    *)
(***************************************************************************)
\* The accumulator of calculate_driver_consistency over a list of results.
RECURSIVE ConsistencyOver(_)
ConsistencyOver(frames) ==
    IF frames = <<>> THEN <<>>
    ELSE consistency_race(ConsistencyOver(SubSeq(frames, 1, Len(frames) - 1)),
                          frames[Len(frames)])
\* The races of the season whose results were fetched.
FetchedOnly == SelectSeq(view_seen, LAMBDA f : f.ok)
ConsistencyAfterFailure ==
    /\ view_op = "calculate_driver_consistency" /\ view_pc = "returned"
    /\ view_ret # Raised("fetch_races")
    /\ \E i \in 1..Len(view_seen) : ~view_seen[i].ok

\* C22: when the fetch of a race fails in calculate_driver_consistency, the
\* operation still returns its table, the race adds nothing to the
\* accumulator, and the accumulator and the table are those of the season
\* without the failed races.
C22_FailedRaceSkipped ==
    ConsistencyAfterFailure =>
        /\ view_ret.tag = "frame"
        /\ view_acc = ConsistencyOver(FetchedOnly)
        /\ view_ret = consistency_return(ConsistencyOver(FetchedOnly))
\* What holds: the accumulator and the outcome, a table or the KeyError of a
\* table without rows, are those of the season without the failed races.
C22_AsWithoutFailedRaces ==
    ConsistencyAfterFailure =>
        /\ view_acc = ConsistencyOver(FetchedOnly)
        /\ view_ret = consistency_return(ConsistencyOver(FetchedOnly))
\* ... a table returned for a season with a failed race and a fetched one.
C22_TableDespiteFailure ==
    /\ ConsistencyAfterFailure /\ view_ret.tag = "frame"
    /\ Len(FetchedOnly) = 1 /\ Len(view_seen) = 2
\* ... and the KeyError of a season all of whose fetches failed.
C22_RaisedAfterFailure ==
    /\ ConsistencyAfterFailure /\ view_ret = Raised("KeyError")
    /\ Len(view_seen) > 0 /\ FetchedOnly = <<>>

\* C23: when the fetch of the standings of a year, or of the list of its
\* races, fails in calculate_driver_career_trajectory, the operation raises
\* to its caller and returns no table that lacks the year.
C23_YearFailurePropagates ==
    (/\ view_op = "calculate_driver_career_trajectory" /\ view_pc = "returned"
     /\ \E i \in 1..Len(view_seen) :
           \/ ~view_seen[i].standings.ok
           \/ InStandings(i) /\ ~view_seen[i].races.ok) =>
        view_ret.tag = "raise"
\* A table is returned that lacks the only year of the range, whose
\* standings could not be fetched.
C23_YearSilentlyMissing ==
    /\ CareerReturned /\ Len(view_seen) = 1
    /\ ~view_seen[1].standings.ok
    /\ view_ret = Table(<<>>)

(***************************************************************************)
(* Further claims about RaceOutcomePredictor                               *)
(***************************************************************************)
\* C25: a train call that raises leaves the predictor as it was, so that the
\* encoders, the regressor and the metrics of a trained predictor all stem
\* from the table of one and the same train call.
C25_OneTrainingSet ==
    /\ (call.op = "train" /\ call.ret.tag = "raise" /\ ~predictor.is_trained)
          => ~predictor.le_driver.fitted /\ ~predictor.le_constructor.fitted
    /\ predictor.is_trained =>
          /\ predictor.le_driver.classes = predictor.model.fit.drivers
          /\ predictor.le_constructor.classes = predictor.model.fit.constructors
          /\ predictor.mae.of = predictor.model.fit
          /\ predictor.r2.of = predictor.model.fit
\* A trained predictor whose encoders are those of a later train call that
\* raised in the fit, with the regressor and the metrics of the earlier one.
C25_EncodersOfFailedTrain ==
    /\ predictor.is_trained
    /\ call.op = "train" /\ call.ret = Raised("ValueError")
    /\ predictor.le_driver.classes # predictor.model.fit.drivers
    /\ predictor.mae.of = predictor.model.fit
\* What holds: the regressor and the metrics stem from the latest train call
\* that completed, the encoders from the latest that was given examples.
C25_ModelOfLastFit ==
    predictor.is_trained =>
        /\ predictor.model.fit = hist.last_fit
        /\ predictor.mae.of = hist.last_fit /\ predictor.r2.of = hist.last_fit
        /\ predictor.le_driver.classes = hist.last_X.drivers
        /\ predictor.le_constructor.classes = hist.last_X.constructors

\* The regressor a model_type names: 'rf' (RandomForest), 'xgb' (XGBoost),
\* 'cb' (CatBoost); any other string names none.
FamilyNamed(mt) ==
    IF mt = "rf" THEN "RandomForestRegressor"
    ELSE IF mt = "xgb" THEN "XGBRegressor"
    ELSE IF mt = "cb" THEN "CatBoostRegressor"
    ELSE "none"
\* C26: the model_type get_metrics reports names the family of the regressor
\* that was fitted, whatever model_type the constructor was given.
C26_ReportedKindIsFitted ==
    (call.op = "get_metrics" /\ call.ret # EmptyDict) =>
        FamilyNamed(call.ret.val["model_type"].s) = predictor.model.kind
\* get_metrics reports a boosted kind for a fitted random forest.
C26_ReportsKindNotFitted ==
    /\ call.op = "get_metrics" /\ call.ret # EmptyDict
    /\ call.ret.val["model_type"].s = "xgb"
    /\ predictor.model.kind = "RandomForestRegressor"
    /\ predictor.model.fit.fitted
\* What holds: the model_type reported is the string the constructor was
\* given.
C26_ReportsStringGiven ==
    (call.op = "get_metrics" /\ call.ret # EmptyDict) =>
        call.ret.val["model_type"].s = predictor.model_type


(***************************************************************************)
(* Claims about the fetch functions                                        *)
(***************************************************************************)
FetchReturned == view_op \in FetchOps /\ view_pc = "returned"
\* The provider answered with a document that has its race list.
Answered == FetchReturned /\ view_seen.tag = "json" /\ view_seen.Races.present
FetchRaised == view_ret \in {Raised("KeyError"), Raised("ConnectionError"), Raised("JSONDecodeError")}
\* The position and the duration a record is to be returned with.
PositionWanted(r) ==
    IF r.position.present /\ isdigit(r.position.v)
    THEN Present(DigitsValue(r.position.v)) ELSE Absent
DurationWanted(ps) ==
    IF ps.duration.present THEN Duration(ps.duration.v) ELSE NoDuration
RowsAsWanted ==
    LET recs == RecordsOf(view_op, view_seen)
    IN  /\ Len(view_ret.rows) = Len(recs)
        /\ \A i \in 1..Len(recs) :
              /\ view_op = "fetch_results" => view_ret.rows[i].position = PositionWanted(recs[i])
              /\ view_op = "fetch_pit_stops" => view_ret.rows[i].duration = DurationWanted(recs[i])

\* C24: a fetch the provider answered never raises for what is absent: it
\* returns a frame with one row for each record of the answer (none when the
\* provider has no entry for the scope), the position of a result absent
\* when the record has none or one that is no number, and the duration of a
\* pit stop absent when the record has none.
C24_AbsentNeverRaises == Answered => ~FetchRaised /\ RowsAsWanted
\* fetch_results raised on a result without a position.
C24_RaisedOnMissingPosition ==
    /\ Answered /\ view_op = "fetch_results"
    /\ \E i \in 1..Len(RecordsOf(view_op, view_seen)) :
          ~RecordsOf(view_op, view_seen)[i].position.present
    /\ view_ret = Raised("KeyError")
\* What holds: the same of the answers in which every result has its
\* 'position' key, whatever its text ...
EveryPositionKey ==
    view_op = "fetch_results" =>
        \A i \in 1..Len(RecordsOf(view_op, view_seen)) :
            RecordsOf(view_op, view_seen)[i].position.present
C24_AbsentWithPositionKey == Answered /\ EveryPositionKey => ~FetchRaised /\ RowsAsWanted
\* ... with a position that is no number and a stop without a duration
\* returned as absent,
C24_LetterReturnedAbsent ==
    /\ Answered /\ view_op = "fetch_results" /\ ~FetchRaised
    /\ \E i \in 1..Len(view_ret.rows) :
          /\ RecordsOf(view_op, view_seen)[i].position = Key(<<"R">>)
          /\ view_ret.rows[i].position = Absent
C24_StopWithoutDuration ==
    /\ Answered /\ view_op = "fetch_pit_stops" /\ ~FetchRaised
    /\ \E i \in 1..Len(view_ret.rows) :
          /\ ~RecordsOf(view_op, view_seen)[i].duration.present
          /\ view_ret.rows[i].duration = NoDuration
\* ... and an empty frame for a scope without an entry: fetch_results and
\* fetch_pit_stops also when RaceTable has no 'Races', where fetch_races
\* raises KeyError.
NoEntry ==
    /\ FetchReturned /\ view_seen.tag = "json"
    /\ view_seen.Races.present => RecordsOf(view_op, view_seen) = <<>>
C24_EmptyForNoEntry ==
    NoEntry /\ (view_op = "fetch_races" => view_seen.Races.present) => view_ret = Frame(<<>>)
C24_RacesWithoutList ==
    NoEntry /\ view_op = "fetch_races" /\ ~view_seen.Races.present /\ view_ret = Raised("KeyError")

(***************************************************************************)
(* Claims about the views with nothing to report                           *)
(***************************************************************************)
\* The view went past the fetches it makes outside any try.
ReachedItsReturn ==
    /\ view_op \in {"calculate_driver_consistency", "analyze_team_performance",
                    "analyze_track_suitability", "analyze_pit_stop_performance"}
    /\ view_pc = "returned"
    /\ view_ret # Raised("fetch_races") /\ view_ret # Raised("fetch_season_standings")
\* No row qualifies for the table: no finish position in the results
\* fetched, no result at all, no finish position of the driver at any
\* circuit, no stop with a parseable duration in a race with results.
NothingQualifies ==
    CASE view_op = "calculate_driver_consistency" ->
            \A k \in 1..Len(SeenRows) : ~SeenRows[k].position.present
      [] view_op = "analyze_team_performance" -> SeenRows = <<>>
      [] view_op = "analyze_track_suitability" ->
            \A c \in {"Monza", "Spa"} : FinishedAt(c) = <<>>
      [] view_op = "analyze_pit_stop_performance" ->
            \A d \in {1, 2} : SecondsOf(StopsWithResults(d)) = <<>>

\* C27: a view that comes to its return with no row qualifying for its
\* table returns a table of no rows and does not raise; so do
\* calculate_driver_consistency, analyze_team_performance and
\* analyze_track_suitability, as analyze_pit_stop_performance does.
C27_EmptyTableWhenNothingQualifies ==
    ReachedItsReturn /\ NothingQualifies => view_ret = Table(<<>>)
\* The three raise instead, also with results fetched that do not qualify
\* (calculate_driver_consistency, analyze_track_suitability) ...
C27_RaisedWithNothingQualifying ==
    ReachedItsReturn /\ NothingQualifies /\ view_ret = Raised("KeyError")
C27_RaisedOverUnclassified ==
    /\ C27_RaisedWithNothingQualifying
    /\ \/ view_op = "calculate_driver_consistency" /\ SeenRows # <<>>
       \/ view_op = "analyze_track_suitability" /\ \E c \in {"Monza", "Spa"} : RanAt(c) # <<>>
\* ... where analyze_pit_stop_performance returns the table of no rows,
\* also over stops none of which has a duration.
C27_PitTableOfNoRows ==
    /\ ReachedItsReturn /\ view_op = "analyze_pit_stop_performance" /\ NothingQualifies
    /\ \E d \in {1, 2} : StopsWithResults(d) # <<>>
    /\ view_ret = Table(<<>>)
\* What holds of the three: they raise KeyError then and only then.
C27_RaiseIffNothingQualifies ==
    ReachedItsReturn /\ view_op # "analyze_pit_stop_performance" =>
        (NothingQualifies <=> view_ret = Raised("KeyError"))
====
